---------------------------- MODULE Spec2Model ----------------------------
(***************************************************************************)
(* ChainReport-API: the agent orchestrator (backend/app/core/orchestrator)  *)
(* and the report lifecycle (backend/app/db/repositories/report_repository, *)
(* backend/app/services/report_processor, backend/app/api/v1/routes).       *)
(*                                                                         *)
(* Several state machines share this module.  SpecOrch is one Orchestrator     *)
(* instance: its registry, one execute_agents_concurrently call at a time   *)
(* and the in-memory report store it writes.  SpecRepo is the report_states *)
(* table with, per report, the background task that drives process_report,  *)
(* the repository's public operations and the recovery sweep.  SpecRepoApi  *)
(* is the same table under arbitrary calls of the repository's methods.     *)
(* SpecLimiter and SpecLimiterSeq are the RateLimiter                       *)
(* (backend/app/security/rate_limiter) with two interleaved callers and     *)
(* with a single caller; SpecLimiterTwin runs its Redis and its in-memory   *)
(* algorithm side by side.  SpecCache is cache_request                      *)
(* (backend/app/utils/cache_utils), SpecRetry the retried fetches of        *)
(* backend/app/services/agents/onchain_agent, SpecTimer the processing-time *)
(* tracker (backend/app/core/time_tracker).  SpecOrchCancel is SpecOrch     *)
(* with the awaiting pipeline cancelled, SpecProc is process_report under   *)
(* several callers and under cancellation, SpecOnchain is                   *)
(* onchain_data_agent and what the orchestrator records for it.             *)
(***************************************************************************)
EXTENDS Integers, Sequences, FiniteSets, TLC

VARIABLES
    \* ---- Orchestrator (core/orchestrator.py) ----
    agents,             \* AIOrchestrator._agents: the registered names, in insertion order
    orch_pc,            \* "idle", "awaiting" (inside the for loop of execute_agents), "done"
    report_id,          \* the report_id argument of the running execution
    tasks,              \* the local dict `tasks`: names in the order the tasks were created
    task,               \* state of each asyncio task: "none", "running", "returned", "raised", "cancelled"
    taskOut,            \* what a finished task holds: its payload or its exception
    overdue,            \* history: the task was still running later than AGENT_TIMEOUT after dispatch
    idx,                \* position of the for loop in `tasks`
    waited,             \* ticks the current wait_for has been waiting
    elapsed,            \* ticks since the tasks were created
    results,            \* the local dict `results`, as an ordered list of entries
    aggregated_data,    \* aggregate_results(agent_results)
    overall_status,     \* execute_agents_concurrently's overall_status
    lastUpdate,         \* the dict handed to in_memory_reports[report_id].update, or NoUpdate
    reportFound,        \* whether `report_id in in_memory_reports` held when the status was written
    execResult,         \* how the execution ended: "none", "returned", "raised"
    in_memory_reports,  \* services/report_service.py in_memory_reports
    \* ---- Report lifecycle (db/repositories/report_repository.py, services/report_processor.py) ----
    db,                 \* the report_states table: report_id -> row, for the rows that exist
    age,                \* minutes since each row's updated_at (now - updated_at), capped at MaxAge
    pc,                 \* where each report's background task stands
    agent_results,      \* process_report's agent_results: the names of the agents that failed
    REPORT_STORE,       \* core/storage.py REPORT_STORE: report_id -> status
    partial_calls,      \* how many update_report_partial_results calls outside callers have made
    \* ---- a caller of the repository's public methods ----
    ret,                \* the last repository call a caller made and what it got back
    \* ---- RateLimiter (security/rate_limiter.py) ----
    now,                \* time.time(), in ticks of 1/TicksPerSecond second
    redis,              \* RateLimiter.redis: TRUE when a client was there at _initialize
    zset,               \* the sorted set rate_limit:<service>: score -> number of members
    in_memory_counters, \* RateLimiter.in_memory_counters: service -> [count, last_reset]
    rl_lock,            \* who holds RateLimiter._lock, or "free"
    rl_pc,              \* where each caller's check_rate_limit stands
    rl_args,            \* each caller's arguments: [service, count]
    rl_cur,             \* each caller's current_time = int(time.time()) (line 51)
    rl_seen,            \* each caller's current_count (line 58)
    rl_failed,          \* whether Redis raised during the caller's check
    rl_start,           \* the tick the caller's check began at
    rl_log,             \* history: the checks that returned, in the order they returned
    rl_budget,          \* how many checks the callers make in this behaviour
    \* ---- cache_request (utils/cache_utils.py) over the Redis keys it writes ----
    cache_store,        \* Redis keys set by setex: key -> [value, expires]
    cache_now,          \* the clock of the cache, in ticks of CacheTickSeconds
    cache_last,         \* history: the last cache_request call and how it went
    \* ---- the retried fetches (services/agents/onchain_agent.py) ----
    rt_pc,              \* "idle", "running" (between attempts), "returned", "raised"
    rt_fn,              \* the function called: fetch_onchain_metrics or fetch_tokenomics
    rt_attempts,        \* history: what each attempt of the call ended with
    rt_result,          \* what the call gave its caller
    \* ---- time tracker (core/time_tracker.py) ----
    tm_store,           \* Redis keys report_timer:<report_id>: report_id -> start tick
    tm_now,             \* datetime.now(), in ticks of TimerTickSeconds
    tm_last,            \* the last finish_timer call and what it returned
    \* ---- process_report as called by several callers (services/report_processor.py) ----
    calls,              \* each call of process_report: its report_id and where it stands
    \* ---- onchain_data_agent (core/orchestrator.py lines 142-177) ----
    oc_pc,              \* "idle", "gathering", "returned", "recorded"
    oc_sub,             \* what each of the two fetch tasks ended with, NoOut while running
    oc_ret              \* the dict the agent returned

orchVars == <<agents, orch_pc, report_id, tasks, task, taskOut, overdue, idx, waited,
              elapsed, results, aggregated_data, overall_status, lastUpdate, reportFound,
              execResult,
              in_memory_reports>>

repoVars == <<db, age, pc, agent_results, REPORT_STORE, partial_calls>>

\* what neither the orchestrator nor the report pipeline touches
limVars == <<now, redis, zset, in_memory_counters, rl_lock, rl_pc, rl_args, rl_cur, rl_seen,
             rl_failed, rl_start, rl_log, rl_budget>>

cacheVars == <<cache_store, cache_now, cache_last>>

retryVars == <<rt_pc, rt_fn, rt_attempts, rt_result>>

timerVars == <<tm_store, tm_now, tm_last>>

procVars == <<calls>>

onchainVars == <<oc_pc, oc_sub, oc_ret>>

utilVars == <<cacheVars, retryVars, timerVars, procVars, onchainVars>>

otherVars == <<ret, limVars, utilVars>>

vars == <<orchVars, repoVars, otherVars>>

-----------------------------------------------------------------------------
(* Bounds and the sets inputs are drawn from *)

\* settings.AGENT_TIMEOUT (30.0 seconds), counted in ticks of ten seconds
AGENT_TIMEOUT == 3

Names == {"A", "B", "C"}
Keys == {"x", "y"}
OrchReportIds == {"r1"}

\* the value an agent puts under every key it returns: one value per agent, so that two
\* agents returning the same key collide with different values
ValueOf(n) == CASE n = "A" -> 1 [] n = "B" -> 2 [] OTHER -> 3

\* a Python dict with string keys is a function on a finite set of strings
EmptyDict == [k \in {} |-> 0]

\* every payload agent n may return: a dict over some of the Keys
Payloads(n) == {[k \in D |-> ValueOf(n)] : D \in SUBSET Keys}

\* what an agent may raise: asyncio.TimeoutError or some other Exception
Excs == {[kind |-> "TimeoutError", msg |-> ""], [kind |-> "Exception", msg |-> "boom"]}

NoOut == [kind |-> "none"]
NoUpdate == [none |-> TRUE]

-----------------------------------------------------------------------------
(* Pure helpers *)

\* dict.update(patch): keys of patch overwrite, other keys stay
DictUpdate(d, patch) ==
    [k \in (DOMAIN d) \cup (DOMAIN patch) |-> IF k \in DOMAIN patch THEN patch[k] ELSE d[k]]

SeqToSet(s) == {s[i] : i \in 1..Len(s)}

\* results[name] = entry on an insertion-ordered dict: replace in place, else append
DictSet(rs, entry) ==
    IF \E i \in 1..Len(rs) : rs[i].name = entry.name
    THEN [i \in 1..Len(rs) |-> IF rs[i].name = entry.name THEN entry ELSE rs[i]]
    ELSE Append(rs, entry)

ResultNames(rs) == {rs[i].name : i \in 1..Len(rs)}

ResultOf(rs, n) == rs[CHOOSE i \in 1..Len(rs) : rs[i].name = n]

FailedNames(rs) == {rs[i].name : i \in {j \in 1..Len(rs) : rs[j].status = "failed"}}

-----------------------------------------------------------------------------
(* AIOrchestrator / Orchestrator *)

\* entry recorded for an agent that returned normally (orchestrator.py line 55)
CompletedEntry(n, payload) == [name |-> n, status |-> "completed", data |-> payload]

\* entry recorded for an agent that failed (orchestrator.py lines 59 and 62)
FailedEntry(n, err) == [name |-> n, status |-> "failed", error |-> err]

\* aggregate_results with the merge turned around: the first value of a key is kept
RECURSIVE aggregate_results_first_wins(_)
aggregate_results_first_wins(rs) ==
    IF rs = <<>> THEN EmptyDict
    ELSE LET rest == aggregate_results_first_wins(Tail(rs))
             r == Head(rs)
         IN  IF r.status = "completed" /\ "data" \in DOMAIN r
             THEN DictUpdate(rest, r.data)
             ELSE rest

\* aggregate_results: walk results.items() in order, dict.update with each completed data
RECURSIVE aggregate_results(_)
aggregate_results(rs) ==
    IF rs = <<>> THEN EmptyDict
    ELSE LET before == aggregate_results(SubSeq(rs, 1, Len(rs) - 1))
             r == rs[Len(rs)]
         IN  IF r.status = "completed" /\ "data" \in DOMAIN r
             THEN DictUpdate(before, r.data)
             ELSE before

\* the overall status execute_agents_concurrently derives (orchestrator.py lines 91-97)
OverallStatus(rs) ==
    IF \E i \in 1..Len(rs) : rs[i].status = "failed" THEN "failed"
    ELSE IF \E i \in 1..Len(rs) : rs[i].status = "partial_success" THEN "partial_success"
    ELSE "completed"

OrchInit ==
    /\ agents = <<>>
    /\ orch_pc = "idle"
    /\ report_id = "r1"
    /\ tasks = <<>>
    /\ task = [n \in Names |-> "none"]
    /\ taskOut = [n \in Names |-> NoOut]
    /\ overdue = [n \in Names |-> FALSE]
    /\ idx = 1
    /\ waited = 0
    /\ elapsed = 0
    /\ results = <<>>
    /\ aggregated_data = EmptyDict
    /\ overall_status = "none"
    /\ lastUpdate = NoUpdate
    /\ reportFound = FALSE
    /\ execResult = "none"
    /\ in_memory_reports = EmptyDict

execVars == <<orch_pc, report_id, tasks, task, taskOut, overdue, idx, waited, elapsed,
              results, aggregated_data, overall_status, lastUpdate, reportFound, execResult>>

\* register_agent(name, agent_func): self._agents[name] = agent_func.  A new name goes
\* to the end of the dict, a known name keeps its place.  No check on a running execution.
register_agent(name) ==
    /\ UNCHANGED <<repoVars, otherVars>>
    /\ agents' = IF name \in SeqToSet(agents) THEN agents ELSE Append(agents, name)
    /\ UNCHANGED <<execVars, in_memory_reports>>

\* generate_report: a fresh report_id gets a placeholder with status "processing"
generate_report(rid) ==
    /\ UNCHANGED <<repoVars, otherVars>>
    /\ rid \notin DOMAIN in_memory_reports
    /\ in_memory_reports' = DictUpdate(in_memory_reports, [r \in {rid} |-> [status |-> "processing"]])
    /\ UNCHANGED <<agents, execVars>>

\* execute_agents_concurrently is called; execute_agents creates one task per registered
\* agent (line 49), all of them start running, and the for loop begins
Dispatch(rid) ==
    /\ UNCHANGED <<repoVars, otherVars>>
    /\ orch_pc = "idle"
    /\ orch_pc' = "awaiting"
    /\ report_id' = rid
    /\ tasks' = agents
    /\ task' = [n \in Names |-> IF n \in SeqToSet(agents) THEN "running" ELSE "none"]
    /\ taskOut' = [n \in Names |-> NoOut]
    /\ overdue' = [n \in Names |-> FALSE]
    /\ idx' = 1
    /\ waited' = 0
    /\ elapsed' = 0
    /\ results' = <<>>
    /\ aggregated_data' = EmptyDict
    /\ overall_status' = "none"
    /\ lastUpdate' = NoUpdate
    /\ reportFound' = FALSE
    /\ execResult' = "none"
    /\ UNCHANGED <<agents, in_memory_reports>>

\* a running agent returns its payload
AgentReturns(n, payload) ==
    /\ UNCHANGED <<repoVars, otherVars>>
    /\ task[n] = "running"
    /\ task' = [task EXCEPT ![n] = "returned"]
    /\ taskOut' = [taskOut EXCEPT ![n] = [kind |-> "payload", data |-> payload]]
    /\ UNCHANGED <<agents, orch_pc, report_id, tasks, overdue, idx, waited, elapsed, results,
                   aggregated_data, overall_status, lastUpdate, reportFound, execResult,
                   in_memory_reports>>

\* a running agent raises
AgentRaises(n, exc) ==
    /\ UNCHANGED <<repoVars, otherVars>>
    /\ task[n] = "running"
    /\ task' = [task EXCEPT ![n] = "raised"]
    /\ taskOut' = [taskOut EXCEPT ![n] = exc]
    /\ UNCHANGED <<agents, orch_pc, report_id, tasks, overdue, idx, waited, elapsed, results,
                   aggregated_data, overall_status, lastUpdate, reportFound, execResult,
                   in_memory_reports>>

\* time passes while wait_for waits on the task the loop is at; the wait never
\* outlasts its timeout
Tick ==
    /\ UNCHANGED <<repoVars, otherVars>>
    /\ orch_pc = "awaiting"
    /\ idx <= Len(tasks)
    /\ task[tasks[idx]] = "running"
    /\ waited < AGENT_TIMEOUT
    /\ waited' = waited + 1
    /\ elapsed' = elapsed + 1
    /\ overdue' = [n \in Names |->
                     overdue[n] \/ (task[n] = "running" /\ elapsed + 1 > AGENT_TIMEOUT)]
    /\ UNCHANGED <<agents, orch_pc, report_id, tasks, task, taskOut, idx, results,
                   aggregated_data, overall_status, lastUpdate, reportFound, execResult,
                   in_memory_reports>>

loopFrame == <<agents, orch_pc, report_id, tasks, taskOut, overdue, elapsed, aggregated_data,
               overall_status, lastUpdate, reportFound, execResult, in_memory_reports>>

\* wait_for returns the task's result: results[name] = completed (lines 54-56)
AwaitCompleted ==
    /\ UNCHANGED <<repoVars, otherVars>>
    /\ orch_pc = "awaiting"
    /\ idx <= Len(tasks)
    /\ task[tasks[idx]] = "returned"
    /\ results' = DictSet(results, CompletedEntry(tasks[idx], taskOut[tasks[idx]].data))
    /\ idx' = idx + 1
    /\ waited' = 0
    /\ UNCHANGED <<task, loopFrame>>

\* AwaitFailed without the try/except around the await: the exception leaves execute_agents
AwaitFailedAborts ==
    /\ UNCHANGED <<repoVars, otherVars>>
    /\ orch_pc = "awaiting"
    /\ idx <= Len(tasks)
    /\ task[tasks[idx]] = "raised"
    /\ orch_pc' = "done"
    /\ execResult' = "raised"
    /\ UNCHANGED <<agents, report_id, tasks, task, taskOut, overdue, idx, waited, elapsed,
                   results, aggregated_data, overall_status, lastUpdate, reportFound,
                   in_memory_reports>>

\* the task raised: an asyncio.TimeoutError of the agent's own lands in the first except
\* branch (lines 57-59), any other Exception in the second (lines 60-62)
AwaitFailed ==
    /\ UNCHANGED <<repoVars, otherVars>>
    /\ orch_pc = "awaiting"
    /\ idx <= Len(tasks)
    /\ task[tasks[idx]] = "raised"
    /\ LET e == taskOut[tasks[idx]]
           err == IF e.kind = "TimeoutError" THEN "Agent timed out" ELSE e.msg
       IN  results' = DictSet(results, FailedEntry(tasks[idx], err))
    /\ idx' = idx + 1
    /\ waited' = 0
    /\ UNCHANGED <<task, loopFrame>>

\* AwaitTimeout that cancels every task still running, not only the one waited on
AwaitTimeoutCancelsAll ==
    /\ UNCHANGED <<repoVars, otherVars>>
    /\ orch_pc = "awaiting"
    /\ idx <= Len(tasks)
    /\ task[tasks[idx]] = "running"
    /\ waited = AGENT_TIMEOUT
    /\ task' = [n \in Names |-> IF task[n] = "running" THEN "cancelled" ELSE task[n]]
    /\ results' = DictSet(results, FailedEntry(tasks[idx], "Agent timed out"))
    /\ idx' = idx + 1
    /\ waited' = 0
    /\ UNCHANGED loopFrame

\* wait_for's timeout expires: it cancels the task it waits on and raises
\* asyncio.TimeoutError, recorded as "Agent timed out" (lines 57-59)
AwaitTimeout ==
    /\ UNCHANGED <<repoVars, otherVars>>
    /\ orch_pc = "awaiting"
    /\ idx <= Len(tasks)
    /\ task[tasks[idx]] = "running"
    /\ waited = AGENT_TIMEOUT
    /\ task' = [task EXCEPT ![tasks[idx]] = "cancelled"]
    /\ results' = DictSet(results, FailedEntry(tasks[idx], "Agent timed out"))
    /\ idx' = idx + 1
    /\ waited' = 0
    /\ UNCHANGED loopFrame

\* the loop is over: aggregate, derive the overall status, update in_memory_reports when
\* the report is there and only log a warning when it is not, return (lines 87-109)
Conclude ==
    /\ UNCHANGED <<repoVars, otherVars>>
    /\ orch_pc = "awaiting"
    /\ idx > Len(tasks)
    /\ LET agg == aggregate_results(results)
           st == OverallStatus(results)
           patch == [status |-> st, data |-> agg]
       IN  /\ aggregated_data' = agg
           /\ overall_status' = st
           /\ IF report_id \in DOMAIN in_memory_reports
              THEN /\ in_memory_reports' =
                        [in_memory_reports EXCEPT
                            ![report_id] = DictUpdate(in_memory_reports[report_id], patch)]
                   /\ lastUpdate' = patch
                   /\ reportFound' = TRUE
              ELSE /\ UNCHANGED in_memory_reports
                   /\ lastUpdate' = NoUpdate
                   /\ reportFound' = FALSE
    /\ orch_pc' = "done"
    /\ execResult' = "returned"
    /\ UNCHANGED <<agents, report_id, tasks, task, taskOut, overdue, idx, waited, elapsed,
                   results>>

OrchNext ==
    \/ \E n \in Names : register_agent(n)
    \/ \E rid \in OrchReportIds : generate_report(rid)
    \/ \E rid \in OrchReportIds : Dispatch(rid)
    \/ \E n \in Names : \E p \in Payloads(n) : AgentReturns(n, p)
    \/ \E n \in Names, e \in Excs : AgentRaises(n, e)
    \/ Tick
    \/ AwaitCompleted
    \/ AwaitFailed
    \/ AwaitTimeout
    \/ Conclude


-----------------------------------------------------------------------------
(* Report lifecycle: the report_states table, the background task, the sweep *)

ReportIds == {"r1", "r2"}

\* cap of the age counter: an age of MaxAge stands for MaxAge minutes or more
MaxAge == 2

\* largest timeout_minutes a sweep is run with; below MaxAge, so that every age the
\* sweep tells apart is counted exactly
MaxTimeout == 1

\* calls of update_report_partial_results made by callers outside the pipeline
MaxPartialCalls == 1

\* ReportStatusEnum (db/models/report_state.py), by value
ReportStatusEnum ==
    {"pending", "running", "failed", "completed", "running_agents", "agents_completed",
     "agents_failed", "agents_partial_success", "generating_nlg", "nlg_completed",
     "generating_summary", "summary_completed", "timed_out"}

\* the columns of ReportState an UPDATE may set
Columns ==
    {"status", "created_at", "updated_at", "partial_agent_output", "raw_data",
     "final_report_json", "error_message", "errors", "timing_alerts", "generation_time"}

NoneVal == [none |-> TRUE]

StalledMessage == "Report stalled in running state for too long."

\* the row a new ReportState starts as: status PENDING, every nullable column None
NewRow ==
    [status |-> "pending", partial_agent_output |-> NoneVal, final_report_json |-> NoneVal,
     error_message |-> "None"]

\* the agents process_report registers (report_processor.py lines 37-39)
PipelineAgents == {"price_agent", "trend_agent", "volume_agent"}

\* the outcomes of execute_agents the pipeline is run with: no agent failed, one failed,
\* all failed
FailedSets == {{}, {"price_agent"}, PipelineAgents}

\* aggregate_results over the pipeline's agents: the data of those that completed
CombinedReportData(failed) == [agents |-> PipelineAgents \ failed]

FinalReportContent == [section_texts |-> "nlg_outputs", final_summary |-> "summary"]

\* partial data an outside caller hands to update_report_partial_results
PartialData == {[step |-> "one"]}

RepoInit ==
    /\ db = EmptyDict
    /\ age = [r \in ReportIds |-> 0]
    /\ pc = [r \in ReportIds |-> "none"]
    /\ agent_results = [r \in ReportIds |-> {}]
    /\ REPORT_STORE = EmptyDict
    /\ partial_calls = 0

\* no repository call has been made by the caller yet
NoCall == [op |-> "none"]

\* ---- RateLimiter: inputs and initial state ----

\* the clock is counted in ticks of half a second: time.time() is a float, and
\* int(time.time()) cuts it to whole seconds
TicksPerSecond == 2

\* the last tick of the clock
MaxTick == 3

\* checks made in one behaviour by a single caller
MaxChecks == 3

\* checks made in one behaviour by two callers at once
MaxConcurrentChecks == 2

\* largest count argument of check_rate_limit
MaxCount == 2

\* rate_limit['max_requests'] and rate_limit['window_seconds'] of the limited service
max_requests == 2
window_seconds == 1

\* the threads (or workers) that call check_rate_limit
Callers == {"t1", "t2"}

\* services: one with an entry in settings.RATE_LIMITS, one without
LimitedService == "price_agent"
Services == {LimitedService, "unknown_agent"}

Seconds == 0..(MaxTick \div TicksPerSecond)

\* _initialize: the Redis client is there or not (redis_client.client is None when the
\* ping failed), no counters yet; the sorted set is empty
LimInit(client, budget) ==
    /\ rl_budget = budget
    /\ now = 0
    /\ redis = client
    /\ zset = [sc \in Seconds |-> 0]
    /\ in_memory_counters = EmptyDict
    /\ rl_lock = "free"
    /\ rl_pc = [c \in Callers |-> "idle"]
    /\ rl_args = [c \in Callers |-> [service |-> LimitedService, count |-> 1]]
    /\ rl_cur = [c \in Callers |-> 0]
    /\ rl_seen = [c \in Callers |-> 0]
    /\ rl_failed = [c \in Callers |-> FALSE]
    /\ rl_start = [c \in Callers |-> 0]
    /\ rl_log = <<>>

\* the two decorated functions of onchain_agent.py
Fetches == {"fetch_onchain_metrics", "fetch_tokenomics"}

\* the process_report calls of one behaviour
ProcCalls == {"p1", "p2", "p3"}

\* a call that has not been made yet
IdleCall == [pc |-> "idle", report_id |-> "none", failed |-> {}, agents_run |-> FALSE]

\* nothing cached, no fetch under way, no timer started, no process_report called
UtilInit ==
    /\ cache_store = EmptyDict
    /\ cache_now = 0
    /\ cache_last = [kind |-> "none", n |-> 0]
    /\ rt_pc = "idle"
    /\ rt_fn = "none"
    /\ rt_attempts = <<>>
    /\ rt_result = NoOut
    /\ tm_store = EmptyDict
    /\ tm_now = 0
    /\ tm_last = [kind |-> "none", n |-> 0]
    /\ calls = [c \in ProcCalls |-> IdleCall]
    /\ oc_pc = "idle"
    /\ oc_sub = [f \in Fetches |-> NoOut]
    /\ oc_ret = NoOut

OtherInit ==
    /\ ret = NoCall
    /\ LimInit(TRUE, MaxChecks)
    /\ UtilInit

Init == OrchInit /\ RepoInit /\ OtherInit

SpecOrch == Init /\ [][OrchNext]_vars

\* an UPDATE report_states SET values WHERE report_id = r: the row takes the values and
\* its updated_at is refreshed (onupdate=func.now()); no row, no change
UpdateRow(r, values) ==
    IF r \in DOMAIN db
    THEN /\ db' = [db EXCEPT ![r] = DictUpdate(db[r], values)]
         /\ age' = [age EXCEPT ![r] = 0]
    ELSE UNCHANGED <<db, age>>

\* create_report_entry: insert Report and ReportState(PENDING); on IntegrityError (the
\* id exists) roll back and return the existing report
create_report_entry(r) ==
    IF r \in DOMAIN db
    THEN UNCHANGED <<db, age>>
    ELSE /\ db' = DictUpdate(db, [x \in {r} |-> NewRow])
         /\ age' = [age EXCEPT ![r] = 0]

\* update_report_status: unconditional UPDATE ... SET status
update_report_status(r, status) == UpdateRow(r, [status |-> status])

\* store_partial_report_results: unconditional UPDATE ... SET partial_agent_output
store_partial_report_results(r, partial_data) ==
    UpdateRow(r, [partial_agent_output |-> partial_data])

\* save_final_report: UPDATE ... SET final_report_json, status = COMPLETED
save_final_report(r, data) ==
    UpdateRow(r, [final_report_json |-> data, status |-> "completed"])

\* whether update_partial's UPDATE ... SET **data compiles: every key must be a column
UpdatePartialAccepted(data) == DOMAIN data \subseteq Columns

\* update_partial: UPDATE ... SET **data; a key that is no column makes the statement
\* fail, the session is rolled back and the error re-raised, nothing is written
update_partial(r, data) ==
    IF UpdatePartialAccepted(data) THEN UpdateRow(r, data) ELSE UNCHANGED <<db, age>>

\* update_report_partial_results: a row that is COMPLETED or FAILED is returned as it
\* is; otherwise partial_agent_output and updated_at are set, and a PENDING row
\* becomes RUNNING
update_report_partial_results(r, partial_data) ==
    IF r \in DOMAIN db /\ db[r].status \in {"completed", "failed"}
    THEN UNCHANGED <<db, age>>
    ELSE UpdateRow(r, IF r \in DOMAIN db /\ db[r].status = "pending"
                      THEN [partial_agent_output |-> partial_data, status |-> "running"]
                      ELSE [partial_agent_output |-> partial_data])

\* the statuses recover_stalled_reports looks for, with PENDING counted in
running_states_with_pending ==
    {"pending", "running", "running_agents", "generating_nlg", "generating_summary"}

\* running_states of recover_stalled_reports (report_repository.py lines 201-206)
running_states == {"running", "running_agents", "generating_nlg", "generating_summary"}

\* the WHERE clause of the sweep: status in running_states and
\* updated_at < now - timeout_minutes, that is now - updated_at > timeout_minutes
IsStalled(r, timeout_minutes) ==
    /\ r \in DOMAIN db
    /\ db[r].status \in running_states
    /\ age[r] > timeout_minutes

\* recover_stalled_reports: one UPDATE moves every stalled row to TIMED_OUT with the
\* fixed error message (and refreshes its updated_at)
recover_stalled_reports(timeout_minutes) ==
    /\ db' = [r \in DOMAIN db |->
                IF IsStalled(r, timeout_minutes)
                THEN DictUpdate(db[r], [status |-> "timed_out", error_message |-> StalledMessage])
                ELSE db[r]]
    /\ age' = [r \in ReportIds |-> IF IsStalled(r, timeout_minutes) THEN 0 ELSE age[r]]
    /\ UNCHANGED <<pc, agent_results, REPORT_STORE, partial_calls>>
    /\ UNCHANGED <<orchVars, otherVars>>

\* a minute passes: every row is a minute older
TickMinute ==
    /\ age' = [r \in ReportIds |->
                 IF r \in DOMAIN db /\ age[r] < MaxAge THEN age[r] + 1 ELSE age[r]]
    /\ UNCHANGED <<db, pc, agent_results, REPORT_STORE, partial_calls>>
    /\ UNCHANGED <<orchVars, otherVars>>

\* the background task of report r moves from one await to the next
Goto(r, from, to) ==
    /\ pc[r] = from
    /\ pc' = [pc EXCEPT ![r] = to]

\* try_set_processing that answers without marking the report
try_set_processing_unmarked(r) == UNCHANGED REPORT_STORE

\* try_set_processing: under the lock, refuse when the report is "processing", else mark
\* it "processing"
try_set_processing(r) ==
    IF r \in DOMAIN REPORT_STORE /\ REPORT_STORE[r] = "processing"
    THEN UNCHANGED REPORT_STORE
    ELSE REPORT_STORE' = DictUpdate(REPORT_STORE, [x \in {r} |-> "processing"])

\* what try_set_processing returns
TrySetProcessingOk(r) == ~(r \in DOMAIN REPORT_STORE /\ REPORT_STORE[r] = "processing")

\* the dict both except branches of process_report and the background task hand to
\* update_partial: {"status": FAILED, "error": str(e)}
FailurePatch(msg) == [status |-> "failed", error |-> msg]

\* POST /report/generate: the report is created at PENDING and its background task
\* scheduled. The generate_report(request, report_repository) the endpoint calls is not
\* in the tree (report_service.generate_report takes the request only); the creation is
\* taken to be the repository's create_report_entry.
generate_report_endpoint(r) ==
    /\ Goto(r, "none", "bg_start")
    /\ create_report_entry(r)
    /\ UNCHANGED <<agent_results, REPORT_STORE, partial_calls>>
    /\ UNCHANGED <<orchVars, otherVars>>

\* _run_agents_in_background: update_report_status(RUNNING_AGENTS), then process_report
\* starts: try_set_processing, or ValueError when the report is already processing
BgStart(r) ==
    /\ pc[r] = "bg_start"
    /\ update_report_status(r, "running_agents")
    /\ try_set_processing(r)
    /\ pc' = [pc EXCEPT ![r] = IF TrySetProcessingOk(r) THEN "pr_agents" ELSE "bg_fail"]
    /\ UNCHANGED <<agent_results, partial_calls>>
    /\ UNCHANGED <<orchVars, otherVars>>

\* lines 41-45: execute_agents returns one outcome per agent, aggregate_results, then
\* update_report_status(GENERATING_NLG)
PrExecuteAgents(r, failed) ==
    /\ Goto(r, "pr_agents", "pr_nlg")
    /\ agent_results' = [agent_results EXCEPT ![r] = failed]
    /\ update_report_status(r, "generating_nlg")
    /\ UNCHANGED <<REPORT_STORE, partial_calls>>
    /\ UNCHANGED <<orchVars, otherVars>>

\* lines 48-49: generate_nlg_outputs returns, update_report_status(NLG_COMPLETED)
PrSetNlgCompleted(r) ==
    /\ Goto(r, "pr_nlg", "pr_set_summary")
    /\ update_report_status(r, "nlg_completed")
    /\ UNCHANGED <<agent_results, REPORT_STORE, partial_calls>>
    /\ UNCHANGED <<orchVars, otherVars>>

\* lines 48-53: generate_nlg_outputs raises, update_partial with the failure patch, then
\* the exception (the original one, or update_partial's own) goes on to the outer handler
PrNlgFailed(r) ==
    /\ Goto(r, "pr_nlg", "pr_outer_fail")
    /\ update_partial(r, FailurePatch("nlg error"))
    /\ UNCHANGED <<agent_results, REPORT_STORE, partial_calls>>
    /\ UNCHANGED <<orchVars, otherVars>>

\* line 56: update_report_status(GENERATING_SUMMARY)
PrSetGeneratingSummary(r) ==
    /\ Goto(r, "pr_set_summary", "pr_summary")
    /\ update_report_status(r, "generating_summary")
    /\ UNCHANGED <<agent_results, REPORT_STORE, partial_calls>>
    /\ UNCHANGED <<orchVars, otherVars>>

\* lines 57-76: the summary is built, update_report_status(SUMMARY_COMPLETED)
PrSummaryCompleted(r) ==
    /\ Goto(r, "pr_summary", "pr_store_partial")
    /\ update_report_status(r, "summary_completed")
    /\ UNCHANGED <<agent_results, REPORT_STORE, partial_calls>>
    /\ UNCHANGED <<orchVars, otherVars>>

\* lines 57-80: building the summary raises, update_partial with the failure patch, then
\* on to the outer handler
PrSummaryFailed(r) ==
    /\ Goto(r, "pr_summary", "pr_outer_fail")
    /\ update_partial(r, FailurePatch("summary error"))
    /\ UNCHANGED <<agent_results, REPORT_STORE, partial_calls>>
    /\ UNCHANGED <<orchVars, otherVars>>

\* line 95: store_partial_report_results(combined_report_data)
PrStorePartial(r) ==
    /\ Goto(r, "pr_store_partial", "pr_save_final")
    /\ store_partial_report_results(r, CombinedReportData(agent_results[r]))
    /\ UNCHANGED <<agent_results, REPORT_STORE, partial_calls>>
    /\ UNCHANGED <<orchVars, otherVars>>

\* line 97: save_final_report(final_report_content)
PrSaveFinal(r) ==
    /\ Goto(r, "pr_save_final", "pr_set_overall")
    /\ save_final_report(r, FinalReportContent)
    /\ UNCHANGED <<agent_results, REPORT_STORE, partial_calls>>
    /\ UNCHANGED <<orchVars, otherVars>>

\* lines 83-85: FAILED when any agent failed, else COMPLETED
PipelineOverallStatus(failed) == IF failed # {} THEN "failed" ELSE "completed"

\* line 99: update_report_status(overall_status); process_report returns True and its
\* locals are gone
PrSetOverall(r) ==
    /\ Goto(r, "pr_set_overall", "bg_set_completed")
    /\ update_report_status(r, PipelineOverallStatus(agent_results[r]))
    /\ agent_results' = [agent_results EXCEPT ![r] = {}]
    /\ UNCHANGED <<REPORT_STORE, partial_calls>>
    /\ UNCHANGED <<orchVars, otherVars>>

\* lines 106-109: update_report_status(FAILED) and re-raise; the locals are gone
PrOuterFail(r) ==
    /\ Goto(r, "pr_outer_fail", "bg_fail")
    /\ update_report_status(r, "failed")
    /\ agent_results' = [agent_results EXCEPT ![r] = {}]
    /\ UNCHANGED <<REPORT_STORE, partial_calls>>
    /\ UNCHANGED <<orchVars, otherVars>>

\* routes.py line 27: update_report_status(COMPLETED) after process_report returned
BgSetCompleted(r) ==
    /\ Goto(r, "bg_set_completed", "bg_done")
    /\ update_report_status(r, "completed")
    /\ UNCHANGED <<agent_results, REPORT_STORE, partial_calls>>
    /\ UNCHANGED <<orchVars, otherVars>>

\* routes.py lines 28-30: process_report raised, update_partial with the failure patch
BgFail(r) ==
    /\ Goto(r, "bg_fail", "bg_done")
    /\ update_partial(r, FailurePatch("processing failed"))
    /\ UNCHANGED <<agent_results, REPORT_STORE, partial_calls>>
    /\ UNCHANGED <<orchVars, otherVars>>

\* a caller outside the pipeline stores partial results for a report
ExternalPartialResults(r, partial_data) ==
    /\ partial_calls < MaxPartialCalls
    /\ partial_calls' = partial_calls + 1
    /\ update_report_partial_results(r, partial_data)
    /\ UNCHANGED <<pc, agent_results, REPORT_STORE>>
    /\ UNCHANGED <<orchVars, otherVars>>

RepoNext ==
    \/ \E r \in ReportIds : generate_report_endpoint(r)
    \/ \E r \in ReportIds : BgStart(r)
    \/ \E r \in ReportIds : \E failed \in FailedSets : PrExecuteAgents(r, failed)
    \/ \E r \in ReportIds : PrSetNlgCompleted(r)
    \/ \E r \in ReportIds : PrNlgFailed(r)
    \/ \E r \in ReportIds : PrSetGeneratingSummary(r)
    \/ \E r \in ReportIds : PrSummaryCompleted(r)
    \/ \E r \in ReportIds : PrSummaryFailed(r)
    \/ \E r \in ReportIds : PrStorePartial(r)
    \/ \E r \in ReportIds : PrSaveFinal(r)
    \/ \E r \in ReportIds : PrSetOverall(r)
    \/ \E r \in ReportIds : PrOuterFail(r)
    \/ \E r \in ReportIds : BgSetCompleted(r)
    \/ \E r \in ReportIds : BgFail(r)
    \/ \E r \in ReportIds : \E d \in PartialData : ExternalPartialResults(r, d)
    \/ \E t \in 1..MaxTimeout : recover_stalled_reports(t)
    \/ TickMinute

SpecRepo == Init /\ [][RepoNext]_vars

\* the sweep is run again and again and time goes on; the pipeline itself may stop
\* anywhere (a hang or a crashed worker), so nothing is assumed of its steps
FairSpecRepo ==
    /\ SpecRepo
    /\ WF_vars(TickMinute)
    /\ WF_vars(\E t \in 1..MaxTimeout : recover_stalled_reports(t))

-----------------------------------------------------------------------------
(* The repository's public methods under an arbitrary caller *)

\* the report a caller works on
ApiReportIds == {"r1"}

\* dicts a caller hands over as partial results: two dicts with different keys
ApiPartialData == {[a |-> 1], [b |-> 2]}

\* final report payloads a caller hands over; update_report_final_report also takes None
ApiFinalData == {[summary |-> "v1"], [summary |-> "v2"]}

\* the error_message arguments of update_report_final_report: None or a text
ApiErrorMessages == {"None", "agent crashed"}

\* the statuses a caller sets through update_report_status
ApiStatuses == {"running_agents", "generating_nlg", "completed", "failed"}

\* what a method that ends with .returning(ReportState) returns: the updated row, or
\* None when no row has the id
Returning(r) == IF r \in DOMAIN db' THEN db'[r] ELSE NoneVal

\* a call of a repository method that returned
Returned(op, r, value) == [op |-> op, report_id |-> r, kind |-> "returned", value |-> value]

\* the table under a duplicate creation that overwrites the existing row
save_report_initial_state_resets(r) ==
    /\ db' = DictUpdate(db, [x \in {r} |-> NewRow])
    /\ age' = [age EXCEPT ![r] = 0]

\* save_report_initial_state: insert Report and ReportState(PENDING); on IntegrityError
\* (the id exists) roll back, nothing is written
save_report_initial_state(r) ==
    IF r \in DOMAIN db
    THEN UNCHANGED <<db, age>>
    ELSE /\ db' = DictUpdate(db, [x \in {r} |-> NewRow])
         /\ age' = [age EXCEPT ![r] = 0]

\* update_report_final_report: unconditional UPDATE ... SET status, final_report_json,
\* error_message, updated_at
update_report_final_report(r, final_report_data, status, error_message) ==
    UpdateRow(r, [status |-> status, final_report_json |-> final_report_data,
                  error_message |-> error_message])

\* what the API calls leave alone
ApiFrame ==
    /\ UNCHANGED <<pc, agent_results, REPORT_STORE, partial_calls>>
    /\ UNCHANGED <<orchVars, limVars, utilVars>>

\* a caller calls save_report_initial_state: the new state, or after the rollback the
\* state get_report_state finds
CallSaveReportInitialState(r) ==
    /\ save_report_initial_state(r)
    /\ ret' = Returned("save_report_initial_state", r, db'[r])
    /\ ApiFrame

\* a caller calls create_report_entry: the Report (its id), new or existing
CallCreateReportEntry(r) ==
    /\ create_report_entry(r)
    /\ ret' = Returned("create_report_entry", r, [id |-> r])
    /\ ApiFrame

CallUpdateReportStatus(r, status) ==
    /\ update_report_status(r, status)
    /\ ret' = Returned("update_report_status", r, Returning(r))
    /\ ApiFrame

CallUpdateReportPartialResults(r, partial_data) ==
    /\ update_report_partial_results(r, partial_data)
    /\ ret' = Returned("update_report_partial_results", r, Returning(r))
    /\ ApiFrame

CallStorePartialReportResults(r, partial_data) ==
    /\ store_partial_report_results(r, partial_data)
    /\ ret' = Returned("store_partial_report_results", r, Returning(r))
    /\ ApiFrame

CallSaveFinalReport(r, data) ==
    /\ save_final_report(r, data)
    /\ ret' = Returned("save_final_report", r, Returning(r))
    /\ ApiFrame

CallUpdateReportFinalReport(r, final_report_data, status, error_message) ==
    /\ update_report_final_report(r, final_report_data, status, error_message)
    /\ ret' = Returned("update_report_final_report", r, Returning(r))
    /\ ApiFrame

ApiNext ==
    \/ \E r \in ApiReportIds : CallSaveReportInitialState(r)
    \/ \E r \in ApiReportIds : CallCreateReportEntry(r)
    \/ \E r \in ApiReportIds : \E st \in ApiStatuses : CallUpdateReportStatus(r, st)
    \/ \E r \in ApiReportIds : \E d \in ApiPartialData : CallUpdateReportPartialResults(r, d)
    \/ \E r \in ApiReportIds : \E d \in ApiPartialData : CallStorePartialReportResults(r, d)
    \/ \E r \in ApiReportIds : \E d \in ApiFinalData : CallSaveFinalReport(r, d)
    \/ \E r \in ApiReportIds : \E d \in ApiFinalData \cup {NoneVal} :
          \E st \in {"completed", "failed"} : \E e \in ApiErrorMessages :
              CallUpdateReportFinalReport(r, d, st, e)

SpecRepoApi == Init /\ [][ApiNext]_vars

-----------------------------------------------------------------------------
(* RateLimiter: check_rate_limit under one or two callers *)

\* the limiter as the module builds it, with or without a Redis client
InitLimiter(budget) ==
    /\ OrchInit
    /\ RepoInit
    /\ ret = NoCall
    /\ UtilInit
    /\ \E client \in BOOLEAN : LimInit(client, budget)

\* the admission test of both paths (lines 60 and 89)
Admits(current_count, count) == current_count + count <= max_requests

\* ZCARD: the number of members of the sorted set
ZCard(z) == LET RECURSIVE Sum(_)
                Sum(S) == IF S = {} THEN 0
                          ELSE LET x == CHOOSE y \in S : TRUE IN z[x] + Sum(S \ {x})
            IN  Sum(DOMAIN z)

\* ZREMRANGEBYSCORE key 0 max: the members with a score of at most max are removed
ZRemRangeByScore(z, max) == [sc \in DOMAIN z |-> IF sc <= max THEN 0 ELSE z[sc]]

\* ZADD of n new members, all with score sc (the member names differ by their suffix)
ZAdd(z, sc, n) == [z EXCEPT ![sc] = @ + n]

\* a check that returned
LogEntry(c, via, admitted) ==
    [service |-> rl_args[c].service, count |-> rl_args[c].count, via |-> via,
     admitted |-> admitted, failed |-> rl_failed[c], start |-> rl_start[c]]

\* whether one more check may begin: checks made or under way are fewer than the budget
Budget == Len(rl_log) + Cardinality({d \in Callers : rl_pc[d] # "idle"}) < rl_budget

\* the locals of a check are gone when it returns
DropLocals(c) ==
    /\ rl_args' = [rl_args EXCEPT ![c] = [service |-> LimitedService, count |-> 1]]
    /\ rl_cur' = [rl_cur EXCEPT ![c] = 0]
    /\ rl_seen' = [rl_seen EXCEPT ![c] = 0]
    /\ rl_failed' = [rl_failed EXCEPT ![c] = FALSE]
    /\ rl_start' = [rl_start EXCEPT ![c] = 0]

\* what a step of the limiter leaves alone
LimFrame == UNCHANGED <<orchVars, repoVars, ret, redis, rl_budget, utilVars>>

\* check_rate_limit returns what the path it took decided
Return(c, via, admitted) ==
    /\ rl_log' = Append(rl_log, LogEntry(c, via, admitted))
    /\ rl_pc' = [rl_pc EXCEPT ![c] = "idle"]
    /\ DropLocals(c)

\* lines 36-39: no limit is defined for the service, the request is allowed
CheckNoLimit(c, service, count) ==
    /\ Budget
    /\ rl_pc[c] = "idle"
    /\ service # LimitedService
    /\ rl_log' = Append(rl_log, [service |-> service, count |-> count, via |-> "none",
                                 admitted |-> TRUE, failed |-> FALSE, start |-> now])
    /\ UNCHANGED <<now, zset, in_memory_counters, rl_lock, rl_pc, rl_args, rl_cur, rl_seen,
                   rl_failed, rl_start>>
    /\ LimFrame

\* lines 36-51: a limit is defined; with a Redis client the Redis path is entered and
\* current_time = int(time.time()) is read, without one the in-memory path
check_rate_limit(c, service, count) ==
    /\ Budget
    /\ rl_pc[c] = "idle"
    /\ service = LimitedService
    /\ rl_args' = [rl_args EXCEPT ![c] = [service |-> service, count |-> count]]
    /\ rl_start' = [rl_start EXCEPT ![c] = now]
    /\ rl_failed' = [rl_failed EXCEPT ![c] = FALSE]
    /\ rl_seen' = [rl_seen EXCEPT ![c] = 0]
    /\ rl_cur' = [rl_cur EXCEPT ![c] = now \div TicksPerSecond]
    /\ rl_pc' = [rl_pc EXCEPT ![c] = IF redis THEN "redis_read" ELSE "mem_lock"]
    /\ UNCHANGED <<now, zset, in_memory_counters, rl_lock, rl_log>>
    /\ LimFrame

\* lines 55-60, 72-74: the read pipeline removes the members with a score of at most
\* current_time - window_seconds and counts the rest; the check goes on to the write
\* phase, or returns False
RedisRead(c) ==
    /\ rl_pc[c] = "redis_read"
    /\ LET trimmed == ZRemRangeByScore(zset, rl_cur[c] - window_seconds)
           current_count == ZCard(trimmed)
       IN  /\ zset' = trimmed
           /\ IF Admits(current_count, rl_args[c].count)
              THEN /\ rl_pc' = [rl_pc EXCEPT ![c] = "redis_write"]
                   /\ rl_seen' = [rl_seen EXCEPT ![c] = current_count]
                   /\ UNCHANGED <<rl_log, rl_args, rl_cur, rl_failed, rl_start>>
              ELSE Return(c, "redis", FALSE)
    /\ UNCHANGED <<now, in_memory_counters, rl_lock>>
    /\ LimFrame

\* lines 61-71: the write pipeline adds count members with score current_time (and sets
\* the key's TTL to window_seconds, which only deletes members the next read pipeline
\* would remove anyway); the check returns True
RedisWrite(c) ==
    /\ rl_pc[c] = "redis_write"
    /\ zset' = ZAdd(zset, rl_cur[c], rl_args[c].count)
    /\ Return(c, "redis", TRUE)
    /\ UNCHANGED <<now, in_memory_counters, rl_lock>>
    /\ LimFrame

\* a Redis error that is not caught: the check ends with the error
RedisFailsPropagates(c) ==
    /\ rl_pc[c] \in {"redis_read", "redis_write"}
    /\ rl_log' = Append(rl_log, [LogEntry(c, "raised", FALSE) EXCEPT !.failed = TRUE])
    /\ rl_pc' = [rl_pc EXCEPT ![c] = "idle"]
    /\ DropLocals(c)
    /\ UNCHANGED <<now, zset, in_memory_counters, rl_lock>>
    /\ LimFrame

\* lines 75-78: a Redis call of the check raises (the server is not reached, nothing is
\* written); the check falls back to the in-memory path
RedisFails(c) ==
    /\ rl_pc[c] \in {"redis_read", "redis_write"}
    /\ rl_failed' = [rl_failed EXCEPT ![c] = TRUE]
    /\ rl_pc' = [rl_pc EXCEPT ![c] = "mem_lock"]
    /\ UNCHANGED <<now, zset, in_memory_counters, rl_lock, rl_args, rl_cur, rl_seen,
                   rl_start, rl_log>>
    /\ LimFrame

\* line 81: with self._lock
MemAcquire(c) ==
    /\ rl_pc[c] = "mem_lock"
    /\ rl_lock = "free"
    /\ rl_lock' = c
    /\ rl_pc' = [rl_pc EXCEPT ![c] = "mem_read"]
    /\ UNCHANGED <<now, zset, in_memory_counters, rl_args, rl_cur, rl_seen, rl_failed,
                   rl_start, rl_log>>
    /\ LimFrame

\* the counter of the service: the defaultdict makes {'count': 0, 'last_reset': now} on
\* first access
CounterOf(service) ==
    IF service \in DOMAIN in_memory_counters
    THEN in_memory_counters[service]
    ELSE [count |-> 0, last_reset |-> now]

\* lines 82-87: the counter is fetched (or made), and reset when more than
\* window_seconds have passed since last_reset
MemRead(c) ==
    /\ rl_pc[c] = "mem_read"
    /\ LET counter == CounterOf(rl_args[c].service)
           fresh == IF now - counter.last_reset > window_seconds * TicksPerSecond
                    THEN [count |-> 0, last_reset |-> now]
                    ELSE counter
       IN  /\ in_memory_counters' =
                 DictUpdate(in_memory_counters, [x \in {rl_args[c].service} |-> fresh])
           /\ rl_seen' = [rl_seen EXCEPT ![c] = fresh.count]
    /\ rl_pc' = [rl_pc EXCEPT ![c] = "mem_decide"]
    /\ UNCHANGED <<now, zset, rl_lock, rl_args, rl_cur, rl_failed, rl_start, rl_log>>
    /\ LimFrame

\* lines 89-94: the counter takes count more when that keeps it within max_requests;
\* the lock is released and the check returns
MemDecide(c) ==
    /\ rl_pc[c] = "mem_decide"
    /\ LET service == rl_args[c].service
           counter == in_memory_counters[service]
           ok == Admits(counter.count, rl_args[c].count)
       IN  /\ in_memory_counters' =
                 IF ok
                 THEN [in_memory_counters EXCEPT ![service].count = @ + rl_args[c].count]
                 ELSE in_memory_counters
           /\ Return(c, "memory", ok)
    /\ rl_lock' = "free"
    /\ UNCHANGED <<now, zset>>
    /\ LimFrame

\* the clock moves on by one tick
TickClock ==
    /\ now < MaxTick
    /\ now' = now + 1
    /\ UNCHANGED <<zset, in_memory_counters, rl_lock, rl_pc, rl_args, rl_cur, rl_seen,
                   rl_failed, rl_start, rl_log>>
    /\ LimFrame

\* two callers, their checks interleaved
LimNext ==
    \/ \E c \in Callers : \E sv \in Services \ {LimitedService} : \E n \in 1..MaxCount :
          CheckNoLimit(c, sv, n)
    \/ \E c \in Callers : \E n \in 1..MaxCount :
          check_rate_limit(c, LimitedService, n)
    \/ \E c \in Callers : RedisRead(c)
    \/ \E c \in Callers : RedisWrite(c)
    \/ \E c \in Callers : RedisFails(c)
    \/ \E c \in Callers : MemAcquire(c)
    \/ \E c \in Callers : MemRead(c)
    \/ \E c \in Callers : MemDecide(c)
    \/ TickClock

SpecLimiter == InitLimiter(MaxConcurrentChecks) /\ [][LimNext]_vars

\* one caller, one check after the other
LimNextSeq ==
    \/ \E sv \in Services \ {LimitedService} : \E n \in 1..MaxCount :
          CheckNoLimit("t1", sv, n)
    \/ \E n \in 1..MaxCount : check_rate_limit("t1", LimitedService, n)
    \/ RedisRead("t1")
    \/ RedisWrite("t1")
    \/ RedisFails("t1")
    \/ MemAcquire("t1")
    \/ MemRead("t1")
    \/ MemDecide("t1")
    \/ TickClock

SpecLimiterSeq == InitLimiter(MaxChecks) /\ [][LimNextSeq]_vars

\* ---- the two paths side by side: one timed sequence of checks given to both ----

\* lines 51-74 as one call without failure: the result and the sorted set it leaves
RedisOutcome(z, current_time, count) ==
    LET trimmed == ZRemRangeByScore(z, current_time - window_seconds)
        ok == Admits(ZCard(trimmed), count)
    IN  [admitted |-> ok, zset |-> IF ok THEN ZAdd(trimmed, current_time, count) ELSE trimmed]

\* lines 81-94 as one call: the result and the counters it leaves
MemOutcome(counters, service, t, count) ==
    LET counter == IF service \in DOMAIN counters THEN counters[service]
                   ELSE [count |-> 0, last_reset |-> t]
        fresh == IF t - counter.last_reset > window_seconds * TicksPerSecond
                 THEN [count |-> 0, last_reset |-> t]
                 ELSE counter
        ok == Admits(fresh.count, count)
        after == IF ok THEN [fresh EXCEPT !.count = @ + count] ELSE fresh
    IN  [admitted |-> ok, counters |-> DictUpdate(counters, [x \in {service} |-> after])]

\* one check of the sequence, made at the same time on a limiter that uses Redis (its
\* sorted set is zset) and on a limiter without a Redis client (its counters are
\* in_memory_counters); the log keeps both answers
TwinCheck(count) ==
    /\ Len(rl_log) < rl_budget
    /\ LET r == RedisOutcome(zset, now \div TicksPerSecond, count)
           m == MemOutcome(in_memory_counters, LimitedService, now, count)
       IN  /\ zset' = r.zset
           /\ in_memory_counters' = m.counters
           /\ rl_log' = Append(rl_log, [count |-> count, start |-> now,
                                        redis |-> r.admitted, memory |-> m.admitted])
    /\ UNCHANGED <<now, rl_lock, rl_pc, rl_args, rl_cur, rl_seen, rl_failed, rl_start>>
    /\ LimFrame

TwinNext ==
    \/ \E n \in 1..MaxCount : TwinCheck(n)
    \/ TickClock

SpecLimiterTwin == Init /\ [][TwinNext]_vars

-----------------------------------------------------------------------------
(* execute_agents under cancellation of the pipeline that awaits it *)

\* the coroutine awaiting execute_agents is cancelled while wait_for (line 54) waits on a
\* running task: wait_for cancels the task it waits on and CancelledError, which is no
\* Exception, passes both except branches and leaves execute_agents; the tasks created
\* at line 49 that the loop has not reached yet are referred to by nothing but the
\* local dict and are left as they are
CancelExecution ==
    /\ UNCHANGED <<repoVars, otherVars>>
    /\ orch_pc = "awaiting"
    /\ idx <= Len(tasks)
    /\ task[tasks[idx]] = "running"
    /\ task' = [task EXCEPT ![tasks[idx]] = "cancelled"]
    /\ orch_pc' = "done"
    /\ execResult' = "cancelled"
    /\ UNCHANGED <<agents, report_id, tasks, taskOut, overdue, idx, waited, elapsed, results,
                   aggregated_data, overall_status, lastUpdate, reportFound,
                   in_memory_reports>>

OrchCancelNext ==
    \/ OrchNext
    \/ CancelExecution

SpecOrchCancel == Init /\ [][OrchCancelNext]_vars

-----------------------------------------------------------------------------
(* cache_request: the response cache in front of an external call *)

\* CACHE_TTL = 3600 seconds, counted in ticks of half an hour
CACHE_TTL == 2

\* the last tick of the cache's clock
MaxCacheTick == 2

\* the key material of a call: the url, and params as None or a dict given by its keys in
\* insertion order
Urls == {"u1"}
ParamKeyOrder == <<"a", "b">>
ParamSets == {<<"None">>, <<>>, <<"a", "b">>, <<"b", "a">>}

\* json.dumps(params, sort_keys=True, default=str): the keys in sorted order,
\* whatever order the dict was built in
SortedParams(params) ==
    SelectSeq(ParamKeyOrder, LAMBDA k : \E i \in 1..Len(params) : params[i] = k)

\* lines 15-19: None and {} both give "", and the digest is taken as one-to-one on
\* the string hashed
generate_cache_key(url, params) ==
    [url |-> url,
     sorted_params |-> IF params = <<"None">> \/ params = <<>> THEN <<>> ELSE SortedParams(params)]

\* what the external call may give: a JSON-like dict or an httpx.Response
Responses == {[type |-> "dict"], [type |-> "httpx.Response"]}

\* external_api_call: not given, raising, or returning a response
ExternalCalls ==
    {[kind |-> "absent", response |-> NoneVal], [kind |-> "raises", response |-> NoneVal]}
        \cup {[kind |-> "returns", response |-> r] : r \in Responses}

\* the codecs call sites pass: the defaults, the pair of code_audit_agent.py, and str as
\* a serializer whose text is not JSON
Serializers == {"json.dumps", "serialize_httpx_response", "str"}
Deserializers == {"json.loads", "deserialize_httpx_response"}

Raised(exc) == [ok |-> FALSE, exc |-> exc, out |-> NoneVal]
Gave(out) == [ok |-> TRUE, exc |-> "none", out |-> out]

\* serializer(response): json.dumps raises TypeError on an object that is not JSON
\* serializable; serialize_httpx_response (code_audit_agent.py lines 15-21) dumps
\* status_code, headers and text and raises AttributeError on an object without them
Serialize(serializer, response) ==
    CASE serializer = "json.dumps" ->
            IF response.type = "dict"
            THEN Gave([format |-> "json", of |-> response.type])
            ELSE Raised("TypeError")
      [] serializer = "serialize_httpx_response" ->
            IF response.type = "httpx.Response"
            THEN Gave([format |-> "json", of |-> "status_code-headers-text"])
            ELSE Raised("AttributeError")
      [] serializer = "str" -> Gave([format |-> "repr", of |-> "text"])

\* deserializer(cached_response): json.loads raises JSONDecodeError on text that is not
\* JSON; deserialize_httpx_response (code_audit_agent.py lines 23-45) loads the JSON and
\* reads data["status_code"], data["headers"], data["text"] into a MockResponse, so it
\* raises KeyError on JSON without those keys
Deserialize(deserializer, text) ==
    CASE text.format # "json" -> Raised("JSONDecodeError")
      [] text.format = "json" /\ deserializer = "json.loads" ->
            Gave([type |-> "dict"])
      [] text.format = "json" /\ deserializer = "deserialize_httpx_response" ->
            IF text.of = "status_code-headers-text"
            THEN Gave([type |-> "MockResponse"])
            ELSE Raised("KeyError")

\* the exceptions lines 42 and 55 catch
CaughtOnDeserialize == {"JSONDecodeError"}
CaughtOnSerialize == {"TypeError", "ValueError"}

\* whether Redis holds the key: set, and its TTL not run out
Found(key) ==
    IF key \in DOMAIN cache_store /\ cache_now < cache_store[key].expires
    THEN "live" ELSE "absent"

\* a lookup that never finds anything
get_cache_never_finds(key, get_fails) == NoneVal

\* redis_client.get_cache (redis_client.py lines 51-63): None without a client, on a
\* RedisError, and for a key that is absent or expired
get_cache(key, get_fails) ==
    IF redis /\ ~get_fails /\ Found(key) = "live" THEN cache_store[key].value ELSE NoneVal

\* redis_client.set_cache (redis_client.py lines 37-49): setex, nothing without a client,
\* nothing on a RedisError
set_cache(key, value, ttl, set_fails) ==
    IF redis /\ ~set_fails
    THEN DictUpdate(cache_store, [k \in {key} |-> [value |-> value, expires |-> cache_now + ttl]])
    ELSE cache_store

\* a call: what the lookup gave, whether the external call was invoked and what it gave,
\* what the serializer gave, and what the caller got; kind is "pending" while the call
\* is under way, n tells one call from the next
NewCall(key, cached, decode, get_fails) ==
    [n |-> 1 - cache_last.n, key |-> key,
     looked |-> IF cached = NoneVal THEN "miss" ELSE "hit", decode |-> decode,
     get_failed |-> get_fails, external |-> "none", response |-> NoneVal, invoked |-> FALSE,
     serialize |-> "none", set_failed |-> FALSE, kind |-> "pending", value |-> NoneVal]

Returns(call, value) == [call EXCEPT !.kind = "returned", !.value = value]
Raises(call, exc) == [call EXCEPT !.kind = "raised", !.value = [exc |-> exc]]

CacheFrame ==
    UNCHANGED <<orchVars, repoVars, ret, limVars, retryVars, timerVars, procVars, onchainVars>>

\* lines 36-47: the key is made and looked up; a cached value is handed to the
\* deserializer and what it gives is returned; on JSONDecodeError the call goes on as on
\* a miss
cache_request(url, params, deserializer, get_fails) ==
    /\ cache_last.kind # "pending"
    /\ get_fails => redis
    /\ LET cache_key == generate_cache_key(url, params)
           cached_response == get_cache(cache_key, get_fails)
           decoded == IF cached_response = NoneVal THEN Raised("none")
                      ELSE Deserialize(deserializer, cached_response)
           call == NewCall(cache_key, cached_response, IF decoded.ok THEN "ok" ELSE decoded.exc,
                           get_fails)
       IN  cache_last' =
              IF cached_response = NoneVal THEN call
              ELSE IF decoded.ok THEN Returns(call, decoded.out)
              ELSE IF decoded.exc \in CaughtOnDeserialize THEN call
              ELSE Raises(call, decoded.exc)
    /\ UNCHANGED <<cache_store, cache_now>>
    /\ CacheFrame

\* lines 49-50 and 61: the external call is awaited when one was given
CallExternal(external_api_call) ==
    /\ cache_last.kind = "pending"
    /\ cache_last.external = "none"
    /\ LET call == [cache_last EXCEPT !.external = external_api_call.kind,
                                      !.response = external_api_call.response]
       IN  cache_last' =
              CASE external_api_call.kind = "absent" -> Returns(call, NoneVal)
                [] external_api_call.kind = "raises" ->
                      Raises([call EXCEPT !.invoked = TRUE], "ExternalError")
                [] external_api_call.kind = "returns" -> [call EXCEPT !.invoked = TRUE]
    /\ UNCHANGED <<cache_store, cache_now>>
    /\ CacheFrame

\* lines 51-60: the response is serialized and stored with CACHE_TTL, and returned; a
\* TypeError or ValueError of the serializer skips the caching
StoreResponse(serializer, set_fails) ==
    /\ cache_last.kind = "pending"
    /\ cache_last.external = "returns"
    /\ set_fails => redis
    /\ LET response == cache_last.response
           serialized_response == Serialize(serializer, response)
           call == [cache_last EXCEPT
                       !.serialize = IF serialized_response.ok THEN "ok"
                                     ELSE serialized_response.exc,
                       !.set_failed = set_fails]
       IN  IF serialized_response.ok
           THEN /\ cache_store' = set_cache(call.key, serialized_response.out, CACHE_TTL,
                                            set_fails)
                /\ cache_last' = Returns(call, response)
           ELSE /\ UNCHANGED cache_store
                /\ cache_last' = IF serialized_response.exc \in CaughtOnSerialize
                                 THEN Returns(call, response)
                                 ELSE Raises(call, serialized_response.exc)
    /\ UNCHANGED cache_now
    /\ CacheFrame

\* half an hour passes; Redis drops the keys whose TTL has run out
CacheTick ==
    /\ cache_now < MaxCacheTick
    /\ cache_now' = cache_now + 1
    /\ cache_store' = [k \in {x \in DOMAIN cache_store : cache_store[x].expires > cache_now + 1}
                          |-> cache_store[k]]
    /\ UNCHANGED cache_last
    /\ CacheFrame

\* one caller, one call after the other
CacheNext ==
    \/ \E url \in Urls : \E params \in ParamSets : \E de \in Deserializers :
          \E get_fails \in BOOLEAN : cache_request(url, params, de, get_fails)
    \/ \E ext \in ExternalCalls : CallExternal(ext)
    \/ \E ser \in Serializers : \E set_fails \in BOOLEAN : StoreResponse(ser, set_fails)
    \/ CacheTick

\* the module as imported: the Redis client is there or not
SpecCache == InitLimiter(MaxChecks) /\ [][CacheNext]_vars

-----------------------------------------------------------------------------
(* fetch_onchain_metrics, fetch_tokenomics: the retried fetches of the on-chain agent *)

\* settings.MAX_RETRIES (core/config.py line 21)
MAX_RETRIES == 5

\* the HTTP error statuses a reply may carry
ErrorStatuses == {404, 429, 500}

\* the exception classes of the module and of httpx that matter, each with its base class
BaseClass(cls) ==
    CASE cls = "OnchainAgentTimeout" -> "OnchainAgentException"
      [] cls = "OnchainAgentNetworkError" -> "OnchainAgentException"
      [] cls = "OnchainAgentHTTPError" -> "OnchainAgentException"
      [] cls = "OnchainAgentRateLimitExceeded" -> "OnchainAgentException"
      [] cls = "OnchainAgentException" -> "Exception"
      [] cls = "httpx.TimeoutException" -> "httpx.RequestError"
      [] cls = "httpx.RequestError" -> "Exception"
      [] cls = "httpx.HTTPStatusError" -> "Exception"
      [] OTHER -> "Exception"

\* isinstance(e, cls)
RECURSIVE IsInstance(_, _)
IsInstance(type, cls) ==
    IF type = cls THEN TRUE
    ELSE IF type = "Exception" THEN FALSE
    ELSE IsInstance(BaseClass(type), cls)

\* what one attempt meets: the limiter's answer, then what client.get, raise_for_status
\* and response.json give; the limits table the limiter reads for "onchain_agent" is
\* settings.RATE_LIMITS, so its answer is an input here
Replies ==
    {[allowed |-> FALSE, raises |-> "none", status_code |-> 0]}
        \cup {[allowed |-> TRUE, raises |-> e, status_code |-> 0] :
                 e \in {"none", "httpx.TimeoutException", "httpx.RequestError", "ValueError"}}
        \cup {[allowed |-> TRUE, raises |-> "httpx.HTTPStatusError", status_code |-> s] :
                 s \in ErrorStatuses}

\* the calls one run of the body makes on the limiter and on the HTTP client, in their
\* order: check_rate_limit("onchain_agent") with the default count of 1 (lines 84 and
\* 141) and client.get (lines 90 and 147)
CheckRateLimit(granted) ==
    [op |-> "check_rate_limit", service |-> "onchain_agent", count |-> 1, granted |-> granted]
ClientGet ==
    [op |-> "client.get", service |-> "none", count |-> 0, granted |-> FALSE]

AttemptReturns(value) ==
    [kind |-> "returned", type |-> "none", status_code |-> 0, value |-> value, did |-> <<>>]
AttemptRaises(type, status_code) ==
    [kind |-> "raised", type |-> type, status_code |-> status_code, value |-> "none",
     did |-> <<>>]

\* the except clauses, with the typed error that loses the status code
raise_typed_without_status(reply) ==
    CASE IsInstance(reply.raises, "httpx.TimeoutException") ->
            AttemptRaises("OnchainAgentTimeout", 0)
      [] ~IsInstance(reply.raises, "httpx.TimeoutException")
            /\ IsInstance(reply.raises, "httpx.RequestError") ->
            AttemptRaises("OnchainAgentNetworkError", 0)
      [] IsInstance(reply.raises, "httpx.HTTPStatusError") ->
            AttemptRaises("OnchainAgentHTTPError", 0)
      [] OTHER -> AttemptRaises("OnchainAgentException", 0)

\* lines 98-108 and 155-166: the except clauses in their order
raise_typed(reply) ==
    CASE IsInstance(reply.raises, "httpx.TimeoutException") ->
            AttemptRaises("OnchainAgentTimeout", 0)
      [] ~IsInstance(reply.raises, "httpx.TimeoutException")
            /\ IsInstance(reply.raises, "httpx.RequestError") ->
            AttemptRaises("OnchainAgentNetworkError", 0)
      [] IsInstance(reply.raises, "httpx.HTTPStatusError") ->
            AttemptRaises("OnchainAgentHTTPError", reply.status_code)
      [] OTHER -> AttemptRaises("OnchainAgentException", 0)

\* a body that sends the request whatever the limiter answered
FetchBodyUnmetered(fn, reply) ==
    LET did == <<CheckRateLimit(reply.allowed), ClientGet>>
    IN  IF reply.raises = "none" THEN [AttemptReturns("response_json") EXCEPT !.did = did]
        ELSE [raise_typed(reply) EXCEPT !.did = did]

\* lines 79-108 and 136-166: one run of the function body; the limiter is asked first
\* and a refusal raises before the client is built
FetchBody(fn, reply) ==
    IF ~reply.allowed
    THEN [AttemptRaises("OnchainAgentRateLimitExceeded", 0) EXCEPT
             !.did = <<CheckRateLimit(FALSE)>>]
    ELSE LET did == <<CheckRateLimit(TRUE), ClientGet>>
         IN  IF reply.raises = "none"
             THEN [AttemptReturns("response_json") EXCEPT !.did = did]
             ELSE [raise_typed(reply) EXCEPT !.did = did]

\* the retry argument of the decorator (lines 56 and 113)
RetryOn ==
    {"OnchainAgentTimeout", "OnchainAgentNetworkError", "OnchainAgentHTTPError",
     "httpx.TimeoutException", "httpx.RequestError"}

\* retry_if_exception_type: the attempt raised an instance of one of the classes
retry_if_exception_type(outcome) ==
    /\ outcome.kind = "raised"
    /\ \E cls \in RetryOn : IsInstance(outcome.type, cls)

\* a stop that gives up one attempt late
stop_after_one_more(attempt_number) == attempt_number > MAX_RETRIES

\* stop_after_attempt(settings.MAX_RETRIES)
stop_after_attempt(attempt_number) == attempt_number >= MAX_RETRIES

RetryFrame ==
    UNCHANGED <<orchVars, repoVars, ret, limVars, cacheVars, timerVars, procVars, onchainVars>>

\* the decorated function is called
Fetch(fn) ==
    /\ rt_pc # "running"
    /\ rt_pc' = "running"
    /\ rt_fn' = fn
    /\ rt_attempts' = <<>>
    /\ rt_result' = NoOut
    /\ RetryFrame

\* one attempt and what tenacity does with its outcome: a value is returned; an
\* exception that is not to be retried is raised; when the stop is reached the last
\* exception is raised (reraise=True); otherwise the call sleeps and tries again
Attempt(reply) ==
    /\ rt_pc = "running"
    /\ LET outcome == FetchBody(rt_fn, reply)
           attempt_number == Len(rt_attempts) + 1
       IN  /\ rt_attempts' = Append(rt_attempts, outcome)
           /\ IF retry_if_exception_type(outcome) /\ ~stop_after_attempt(attempt_number)
              THEN /\ rt_pc' = "running"
                   /\ UNCHANGED rt_result
              ELSE /\ rt_pc' = "done"
                   /\ rt_result' = outcome
    /\ UNCHANGED rt_fn
    /\ RetryFrame

RetryNext ==
    \/ \E fn \in Fetches : Fetch(fn)
    \/ \E reply \in Replies : Attempt(reply)

SpecRetry == Init /\ [][RetryNext]_vars

-----------------------------------------------------------------------------
(* start_timer, finish_timer: the processing-time tracker (core/time_tracker.py) *)

\* the threshold of line 42, 300 seconds, counted in ticks of 150 seconds
ALERT_THRESHOLD == 2

\* the last tick of the tracker's clock
MaxTimerTick == 3

TimerReportIds == {"r1", "r2"}

\* redis.Redis(..., decode_responses=True) (cache/redis_client.py line 28): GET gives a
\* str, not bytes
decode_responses == TRUE

\* the type of what redis_client.get_cache returns for a stored string
TypeOfGet == IF decode_responses THEN "str" ELSE "bytes"

\* start_time_str.decode('utf-8') (line 37): bytes have the method, a str has not
DecodeUtf8(type) == IF type = "bytes" THEN "ok" ELSE "AttributeError"

\* whether Redis holds report_timer:<report_id>; an entry stays in tm_store after Redis
\* dropped it, with the way it went
TimerLive(r) == r \in DOMAIN tm_store /\ tm_store[r].state = "live"

\* why Redis holds no timestamp for the report
WhyAbsent(r) ==
    IF r \notin DOMAIN tm_store THEN "never started"
    ELSE IF tm_store[r].state = "live" THEN "stored"
    ELSE tm_store[r].state

\* the record line 43-47 builds
WarningMessage(end_time) ==
    [timestamp |-> end_time, message |-> "Report processing time exceeded 5 minutes.",
     threshold |-> "5 minutes"]

\* report_state.timing_alerts if report_state.timing_alerts else [] (line 54)
TimingAlerts(row) ==
    IF "timing_alerts" \in DOMAIN row THEN row.timing_alerts ELSE <<>>

\* a finish_timer call and what it gave: result is "None" or "duration"
Finished(r, found, why, passed, result, duration, alerted) ==
    [n |-> 1 - tm_last.n, kind |-> "returned", report_id |-> r, found |-> found, why |-> why,
     elapsed |-> passed, result |-> result, duration |-> duration, alerted |-> alerted]

\* a not-found path that raises
TimerNotFoundRaises(r) ==
    [Finished(r, FALSE, WhyAbsent(r), 0, "None", 0, FALSE) EXCEPT !.kind = "raised"]

\* lines 61-63: no timestamp, None is returned
TimerNotFound(r) == Finished(r, FALSE, WhyAbsent(r), 0, "None", 0, FALSE)

TimerFrame ==
    UNCHANGED <<orchVars, pc, agent_results, REPORT_STORE, partial_calls, ret, limVars,
                cacheVars, retryVars, procVars, onchainVars>>

\* start_timer (lines 13-23): the timestamp is stored for 24 hours; without a client
\* and on a RedisError set_cache does nothing
start_timer(r, set_fails) ==
    /\ set_fails => redis
    /\ tm_store' = IF redis /\ ~set_fails
                   THEN DictUpdate(tm_store, [x \in {r} |-> [state |-> "live", at |-> tm_now]])
                   ELSE tm_store
    /\ UNCHANGED <<tm_now, tm_last, db, age>>
    /\ TimerFrame

\* finish_timer (lines 25-66)
finish_timer(r, get_fails, delete_fails) ==
    /\ (get_fails \/ delete_fails) => redis
    /\ LET found == redis /\ ~get_fails /\ TimerLive(r)
           passed == IF TimerLive(r) THEN tm_now - tm_store[r].at ELSE 0
           decoded == DecodeUtf8(TypeOfGet)
           duration == passed
           row_found == r \in DOMAIN db
           alerts == IF row_found THEN Append(TimingAlerts(db[r]), WarningMessage(tm_now))
                     ELSE <<>>
       IN  IF ~found
           THEN /\ tm_last' = [TimerNotFound(r) EXCEPT !.elapsed = passed]
                /\ UNCHANGED <<tm_store, db, age>>
           ELSE /\ tm_store' = IF delete_fails THEN tm_store
                               ELSE [tm_store EXCEPT ![r].state = "finished"]
                /\ IF decoded # "ok"
                   THEN /\ tm_last' = Finished(r, TRUE, "stored", passed, "None", 0, FALSE)
                        /\ UNCHANGED <<db, age>>
                   ELSE IF duration > ALERT_THRESHOLD
                   THEN /\ tm_last' = Finished(r, TRUE, "stored", passed, "duration",
                                               duration, row_found)
                        /\ UpdateRow(r, [timing_alerts |-> alerts])
                   ELSE /\ tm_last' = Finished(r, TRUE, "stored", passed, "duration",
                                               duration, FALSE)
                        /\ UNCHANGED <<db, age>>
    /\ UNCHANGED tm_now
    /\ TimerFrame

\* 150 seconds pass
TimerTick ==
    /\ tm_now < MaxTimerTick
    /\ tm_now' = tm_now + 1
    /\ UNCHANGED <<tm_store, tm_last, db, age>>
    /\ TimerFrame

\* the 24 hours of a timestamp run out and Redis drops it
TimerExpires(r) ==
    /\ TimerLive(r)
    /\ tm_store' = [tm_store EXCEPT ![r].state = "expired"]
    /\ UNCHANGED <<tm_now, tm_last, db, age>>
    /\ TimerFrame

\* reports are created, their timers started and finished in any order
TimerNext ==
    \/ \E r \in TimerReportIds : CallSaveReportInitialState(r)
    \/ \E r \in TimerReportIds : \E set_fails \in BOOLEAN : start_timer(r, set_fails)
    \/ \E r \in TimerReportIds : \E get_fails \in BOOLEAN : \E delete_fails \in BOOLEAN :
          finish_timer(r, get_fails, delete_fails)
    \/ TimerTick
    \/ \E r \in TimerReportIds : TimerExpires(r)

SpecTimer == InitLimiter(MaxChecks) /\ [][TimerNext]_vars

-----------------------------------------------------------------------------
(* process_report called by several callers, and cancelled (services/report_processor.py) *)

ProcReportIds == {"r1", "r2"}

\* the awaits a running process_report may be suspended at: execute_agents (line 41),
\* generate_nlg_outputs (line 48), the writes of the summary stage (lines 56-76) and of
\* the final report (lines 95-99)
ProcAwaits == {"agents", "nlg", "summary", "save"}

ProcFrame ==
    UNCHANGED <<orchVars, pc, agent_results, partial_calls, ret, limVars, cacheVars,
                retryVars, timerVars, onchainVars>>

ProcGoto(c, to) == calls' = [calls EXCEPT ![c].pc = to]

\* lines 30-41: try_set_processing; refused, ValueError is raised before anything else is
\* done; granted, the orchestrator is built and execute_agents creates the agents' tasks
ProcCall(c, r) ==
    /\ calls[c].pc = "idle"
    /\ try_set_processing(r)
    /\ calls' = [calls EXCEPT ![c] =
                    IF TrySetProcessingOk(r)
                    THEN [pc |-> "agents", report_id |-> r, failed |-> {}, agents_run |-> TRUE]
                    ELSE [pc |-> "raised ValueError", report_id |-> r, failed |-> {},
                          agents_run |-> FALSE]]
    /\ UNCHANGED <<db, age>>
    /\ ProcFrame

\* lines 41-45: execute_agents returns, update_report_status(GENERATING_NLG)
ProcAgentsDone(c, failed) ==
    /\ calls[c].pc = "agents"
    /\ calls' = [calls EXCEPT ![c].pc = "nlg", ![c].failed = failed]
    /\ update_report_status(calls[c].report_id, "generating_nlg")
    /\ UNCHANGED REPORT_STORE
    /\ ProcFrame

\* a stage failed (lines 50-53, 77-80, 106-109): update_partial with the failure patch,
\* which writes nothing when the patch names no column, then update_report_status(FAILED)
\* in the outer handler, and the exception is re-raised
ProcStageFails(c, stage, msg) ==
    /\ calls[c].pc = stage
    /\ ProcGoto(c, "raised")
    /\ IF UpdatePartialAccepted(FailurePatch(msg))
       THEN UpdateRow(calls[c].report_id, FailurePatch(msg))
       ELSE update_report_status(calls[c].report_id, "failed")
    /\ UNCHANGED REPORT_STORE
    /\ ProcFrame

\* lines 48-56: the narrative is generated, NLG_COMPLETED and then GENERATING_SUMMARY
\* are written
ProcNlgDone(c) ==
    /\ calls[c].pc = "nlg"
    /\ ProcGoto(c, "summary")
    /\ update_report_status(calls[c].report_id, "generating_summary")
    /\ UNCHANGED REPORT_STORE
    /\ ProcFrame

\* lines 57-76: the summary is built, SUMMARY_COMPLETED is written
ProcSummaryDone(c) ==
    /\ calls[c].pc = "summary"
    /\ ProcGoto(c, "save")
    /\ update_report_status(calls[c].report_id, "summary_completed")
    /\ UNCHANGED REPORT_STORE
    /\ ProcFrame

\* lines 83-102: store_partial_report_results, save_final_report and
\* update_report_status(overall_status), then True is returned
ProcSaved(c) ==
    /\ calls[c].pc = "save"
    /\ ProcGoto(c, "returned")
    /\ UpdateRow(calls[c].report_id,
                 [partial_agent_output |-> CombinedReportData(calls[c].failed),
                  final_report_json |-> FinalReportContent,
                  status |-> PipelineOverallStatus(calls[c].failed)])
    /\ UNCHANGED REPORT_STORE
    /\ ProcFrame

\* the task running process_report is cancelled while it is suspended at one of its
\* awaits: CancelledError is raised there and caught at line 103
ProcCancel(c) ==
    /\ calls[c].pc \in ProcAwaits
    /\ ProcGoto(c, "cancelling")
    /\ UNCHANGED <<db, age, REPORT_STORE>>
    /\ ProcFrame

\* lines 103-105: update_report_status(FAILED), then CancelledError is re-raised
ProcCancelHandler(c) ==
    /\ calls[c].pc = "cancelling"
    /\ ProcGoto(c, "cancelled")
    /\ update_report_status(calls[c].report_id, "failed")
    /\ UNCHANGED REPORT_STORE
    /\ ProcFrame

\* reports are created and process_report is called for them, by any caller at any time
ProcNext ==
    \/ \E r \in ProcReportIds : CallCreateReportEntry(r)
    \/ \E c \in ProcCalls : \E r \in ProcReportIds : ProcCall(c, r)
    \/ \E c \in ProcCalls : \E failed \in FailedSets : ProcAgentsDone(c, failed)
    \/ \E c \in ProcCalls : ProcStageFails(c, "nlg", "nlg error")
    \/ \E c \in ProcCalls : ProcStageFails(c, "summary", "summary error")
    \/ \E c \in ProcCalls : ProcNlgDone(c)
    \/ \E c \in ProcCalls : ProcSummaryDone(c)
    \/ \E c \in ProcCalls : ProcSaved(c)
    \/ \E c \in ProcCalls : ProcCancel(c)
    \/ \E c \in ProcCalls : ProcCancelHandler(c)

SpecProc == Init /\ [][ProcNext]_vars

-----------------------------------------------------------------------------
(* onchain_data_agent and what the orchestrator records for it (core/orchestrator.py) *)

OnchainAgentName == "onchain_data_agent"

\* the key of the agent's result each fetch fills (lines 174-177)
SubKey(f) == IF f = "fetch_onchain_metrics" THEN "onchain_metrics" ELSE "tokenomics"

\* the message of the timeout branches (lines 162 and 169)
TimedOutMessage(f) ==
    IF f = "fetch_onchain_metrics" THEN "Onchain metrics fetch timed out"
    ELSE "Tokenomics fetch timed out"

RunningTask == [kind |-> "running"]

\* what a fetch task may end with: the response, or one of the exceptions the fetch
\* raises when its retries are over or stopped
SubOutcomes ==
    {FetchBody(f, reply) : f \in Fetches, reply \in Replies}

\* asyncio.TimeoutError of wait_for (lines 154-155)
WaitForTimeout == AttemptRaises("asyncio.TimeoutError", 0)

\* lines 160-172: a TimeoutError becomes the timed-out message, any other Exception its
\* text, a result stays
SubResult(f, outcome) ==
    IF outcome.kind = "returned" THEN [data |-> outcome.value]
    ELSE IF IsInstance(outcome.type, "asyncio.TimeoutError") THEN [error |-> TimedOutMessage(f)]
    ELSE [error |-> outcome.type]

\* lines 174-177: the dict the agent returns
OnchainAgentResult(sub) == [k \in {SubKey(f) : f \in Fetches} |->
                               LET f == CHOOSE g \in Fetches : SubKey(g) = k
                               IN  SubResult(f, sub[f])]

OnchainFrame ==
    UNCHANGED <<repoVars, ret, limVars, cacheVars, retryVars, timerVars, procVars>>

\* lines 142-157: the agent is called, both fetch tasks are created and gathered
OnchainAgentCalled ==
    /\ oc_pc \in {"idle", "recorded"}
    /\ oc_pc' = "gathering"
    /\ oc_sub' = [f \in Fetches |-> RunningTask]
    /\ oc_ret' = NoOut
    /\ UNCHANGED orchVars
    /\ OnchainFrame

\* a fetch task ends, with the response or with an exception
SubFetchEnds(f, outcome) ==
    /\ oc_pc = "gathering"
    /\ oc_sub[f] = RunningTask
    /\ oc_sub' = [oc_sub EXCEPT ![f] = outcome]
    /\ UNCHANGED <<oc_pc, oc_ret, orchVars>>
    /\ OnchainFrame

\* wait_for(task, AGENT_TIMEOUT - 1) expires on a fetch task that is still running
WaitForTimesOut(f) ==
    /\ oc_pc = "gathering"
    /\ oc_sub[f] = RunningTask
    /\ oc_sub' = [oc_sub EXCEPT ![f] = WaitForTimeout]
    /\ UNCHANGED <<oc_pc, oc_ret, orchVars>>
    /\ OnchainFrame

\* lines 153-177: gather(return_exceptions=True) has both outcomes, the agent returns
OnchainAgentReturns ==
    /\ oc_pc = "gathering"
    /\ \A f \in Fetches : oc_sub[f] # RunningTask
    /\ oc_pc' = "returned"
    /\ oc_ret' = OnchainAgentResult(oc_sub)
    /\ UNCHANGED <<oc_sub, orchVars>>
    /\ OnchainFrame

\* execute_agents records the agent's return (line 55) and
\* execute_agents_concurrently aggregates, derives the status and updates the report
\* (lines 87-109)
OrchestratorRecords(rid) ==
    /\ oc_pc = "returned"
    /\ oc_pc' = "recorded"
    /\ LET rs == <<CompletedEntry(OnchainAgentName, oc_ret)>>
           agg == aggregate_results(rs)
           st == OverallStatus(rs)
           patch == [status |-> st, data |-> agg]
       IN  /\ results' = rs
           /\ aggregated_data' = agg
           /\ overall_status' = st
           /\ report_id' = rid
           /\ IF rid \in DOMAIN in_memory_reports
              THEN /\ in_memory_reports' =
                        [in_memory_reports EXCEPT ![rid] = DictUpdate(in_memory_reports[rid], patch)]
                   /\ lastUpdate' = patch
                   /\ reportFound' = TRUE
              ELSE /\ UNCHANGED in_memory_reports
                   /\ lastUpdate' = NoUpdate
                   /\ reportFound' = FALSE
    /\ UNCHANGED <<agents, orch_pc, tasks, task, taskOut, overdue, idx, waited, elapsed,
                   execResult, oc_sub, oc_ret>>
    /\ OnchainFrame

OnchainNext ==
    \/ \E rid \in OrchReportIds : generate_report(rid)
    \/ OnchainAgentCalled
    \/ \E f \in Fetches : \E outcome \in SubOutcomes : SubFetchEnds(f, outcome)
    \/ \E f \in Fetches : WaitForTimesOut(f)
    \/ OnchainAgentReturns
    \/ \E rid \in OrchReportIds : OrchestratorRecords(rid)

SpecOnchain == Init /\ [][OnchainNext]_vars

-----------------------------------------------------------------------------
(* Properties of one execution *)

SetMax(S) == CHOOSE m \in S : \A o \in S : o <= m

\* C1: when execute_agents has returned, the result map holds exactly one outcome for
\* each name that was registered when the execution was dispatched: no name missing,
\* none extra, none twice, whether the agents returned, raised or timed out.
C1_OneOutcomePerAgent ==
    orch_pc = "done" =>
        /\ execResult = "returned"
        /\ Len(results) = Len(tasks)
        /\ ResultNames(results) = SeqToSet(tasks)
        /\ \A i \in 1..Len(results) : results[i].status \in {"completed", "failed"}

\* C1 witness: three agents, one returned, one raised, one timed out, all three recorded
C1_Witness ==
    /\ orch_pc = "done"
    /\ Len(tasks) = Cardinality(Names)
    /\ \E a, b, c \in Names :
          /\ task[a] = "returned" /\ task[b] = "raised" /\ task[c] = "cancelled"
          /\ {a, b, c} \subseteq ResultNames(results)

\* C2: the overall status of an execution is "completed" when no agent failed, "failed"
\* when every agent failed, and "partial_success" when some but not all failed.
C2_ThreeWaySplit ==
    orch_pc = "done" =>
        overall_status =
            IF FailedNames(results) = {} THEN "completed"
            ELSE IF FailedNames(results) = SeqToSet(tasks) THEN "failed"
            ELSE "partial_success"

\* C6: a task is cancelled only by the timeout of the wait_for that waits on that very
\* task; every dispatched task runs from dispatch on, whatever happened to the others;
\* and at the end every agent has the outcome of its own task recorded.
C6_Isolation ==
    /\ [][\A n \in Names :
            (task[n] # "cancelled" /\ task'[n] = "cancelled") =>
                (idx <= Len(tasks) /\ tasks[idx] = n /\ waited = AGENT_TIMEOUT)]_vars
    /\ [](orch_pc # "idle" => \A n \in SeqToSet(tasks) : task[n] # "none")
    /\ [](orch_pc = "done" =>
            \A n \in SeqToSet(tasks) :
                /\ task[n] = "returned" =>
                      ResultOf(results, n) = CompletedEntry(n, taskOut[n].data)
                /\ task[n] = "raised" => ResultOf(results, n).status = "failed"
                /\ task[n] = "cancelled" =>
                      ResultOf(results, n) = FailedEntry(n, "Agent timed out"))

\* C6 witness: the first agent timed out or raised, and a later agent still returned and
\* has its payload recorded
C6_Witness ==
    /\ orch_pc = "done"
    /\ Len(tasks) >= 2
    /\ task[tasks[1]] \in {"cancelled", "raised"}
    /\ \E i \in 2..Len(tasks) :
          /\ task[tasks[i]] = "returned"
          /\ ResultOf(results, tasks[i]).status = "completed"

\* C7: every dispatched task that was still running later than AGENT_TIMEOUT after its
\* dispatch has been cancelled and is recorded as failed with "Agent timed out".
C7_TimeoutBoundsEveryTask ==
    orch_pc = "done" =>
        \A n \in SeqToSet(tasks) :
            overdue[n] =>
                /\ task[n] = "cancelled"
                /\ ResultOf(results, n) = FailedEntry(n, "Agent timed out")

\* C8: the aggregated data holds exactly the keys of the completed outcomes, and under
\* each key the value of the completed agent registered last among those that hold the
\* key; failed agents contribute nothing.
C8_MergeInRegistrationOrder ==
    orch_pc = "done" =>
        LET Holds(k) == {i \in 1..Len(tasks) :
                            LET r == ResultOf(results, tasks[i])
                            IN  r.status = "completed" /\ k \in DOMAIN r.data}
        IN  /\ DOMAIN aggregated_data = {k \in Keys : Holds(k) # {}}
            /\ \A k \in DOMAIN aggregated_data :
                  aggregated_data[k] = ResultOf(results, tasks[SetMax(Holds(k))]).data[k]

\* C8 witness: A returned x, B failed, C returned x and y: x collides and C's value wins
C8_Witness ==
    /\ orch_pc = "done"
    /\ tasks = <<"A", "B", "C">>
    /\ results = <<CompletedEntry("A", [k \in {"x"} |-> ValueOf("A")]),
                   FailedEntry("B", "boom"),
                   CompletedEntry("C", [k \in {"x", "y"} |-> ValueOf("C")])>>
    /\ aggregated_data = [k \in {"x", "y"} |-> ValueOf("C")]

\* C9: when the report is not found at the time the overall status is written, the
\* execution ends with a raised error and performs no update.
C9_LostWriteRaises ==
    (orch_pc = "done" /\ ~reportFound) => (execResult = "raised" /\ lastUpdate = NoUpdate)

\* C10: after an execution with at least one failed agent, the update that writes the
\* overall status also carries an errors map holding exactly the failed names, each true.
C10_ErrorsInSameUpdate ==
    (orch_pc = "done" /\ reportFound /\ FailedNames(results) # {}) =>
        /\ "status" \in DOMAIN lastUpdate
        /\ "errors" \in DOMAIN lastUpdate
        /\ lastUpdate["errors"] = [n \in FailedNames(results) |-> TRUE]

-----------------------------------------------------------------------------
(* Properties of the report lifecycle *)

\* the terminal statuses
IsTerminal(st) == st \in {"completed", "failed", "timed_out"}

\* C3: once a row's status is COMPLETED, FAILED or TIMED_OUT, no later step sets it to
\* a status that is not one of these three.
C3_NoRegressionFromTerminal ==
    [][\A r \in DOMAIN db : IsTerminal(db[r].status) => IsTerminal(db'[r].status)]_vars

\* the rows a step wrote to: any column, or updated_at
Changed(r) == r \in DOMAIN db /\ (db'[r] # db[r] \/ age'[r] # age[r])

C5_EventuallyTerminal ==
    \A r \in ReportIds :
        (pc[r] \notin {"none", "bg_start"}) ~> (r \in DOMAIN db /\ IsTerminal(db[r].status))

\* C11: once a row's status is COMPLETED, FAILED or TIMED_OUT, no later step changes
\* the status at all, not even to another terminal value.
C11_TerminalStatusFrozen ==
    [][\A r \in DOMAIN db : IsTerminal(db[r].status) => db'[r].status = db[r].status]_vars

\* the place of a status on the transition table PENDING -> RUNNING_AGENTS ->
\* {AGENTS_COMPLETED, AGENTS_PARTIAL_SUCCESS, AGENTS_FAILED} -> GENERATING_NLG ->
\* NLG_COMPLETED -> GENERATING_SUMMARY -> SUMMARY_COMPLETED -> COMPLETED; RUNNING, which
\* the table does not name, is read as an early in-progress status
StatusRank(st) ==
    CASE st = "pending" -> 0
      [] st = "running" -> 1
      [] st = "running_agents" -> 2
      [] st \in {"agents_completed", "agents_partial_success", "agents_failed"} -> 3
      [] st = "generating_nlg" -> 4
      [] st = "nlg_completed" -> 5
      [] st = "generating_summary" -> 6
      [] st = "summary_completed" -> 7
      [] st = "completed" -> 8
      [] OTHER -> -1

\* C12: every change of a row's status is a move forward on the transition table (steps
\* may be skipped), or a move from a non-terminal status into FAILED or TIMED_OUT.
C12_StatusOnlyMovesForward ==
    [][\A r \in DOMAIN db :
          db'[r].status # db[r].status =>
              \/ /\ StatusRank(db[r].status) >= 0
                 /\ StatusRank(db'[r].status) > StatusRank(db[r].status)
              \/ /\ ~IsTerminal(db[r].status)
                 /\ db'[r].status \in {"failed", "timed_out"}]_vars

\* C13: when every agent of the execution failed, the pipeline never gets to narrative
\* generation or summarization (it aborts and marks the report FAILED).
C13_AllFailedAborts ==
    \A r \in ReportIds :
        agent_results[r] = PipelineAgents =>
            pc[r] \notin {"pr_nlg", "pr_set_summary", "pr_summary", "pr_store_partial",
                          "pr_save_final", "pr_set_overall"}

\* C14: once final_report_json of a row has been written, no later operation changes it.
C14_FinalReportWrittenOnce ==
    [][\A r \in DOMAIN db :
          db[r].final_report_json # NoneVal =>
              db'[r].final_report_json = db[r].final_report_json]_vars

\* C15: partial_agent_output only grows: whatever key it holds before a step, it still
\* holds after it.
C15_PartialOutputOnlyGrows ==
    [][\A r \in DOMAIN db :
          db[r].partial_agent_output # NoneVal =>
              /\ db'[r].partial_agent_output # NoneVal
              /\ DOMAIN db[r].partial_agent_output \subseteq DOMAIN db'[r].partial_agent_output]_vars

\* C16: creating the initial state for an id that has a row raises nothing, leaves the
\* row as it is, and returns the existing record (save_report_initial_state: the
\* existing state; create_report_entry: the existing report).
C16_DuplicateCreationKeepsRecord ==
    [][\A r \in ApiReportIds :
          r \in DOMAIN db =>
              /\ CallSaveReportInitialState(r) =>
                    /\ db'[r] = db[r]
                    /\ ret' = Returned("save_report_initial_state", r, db[r])
              /\ CallCreateReportEntry(r) =>
                    /\ db'[r] = db[r]
                    /\ ret' = Returned("create_report_entry", r, [id |-> r])]_vars

\* C16 witness: save_report_initial_state has just returned a record that is COMPLETED
\* and holds a final report: the id existed and nothing was reset
C16_Witness ==
    /\ ret.op = "save_report_initial_state"
    /\ ret.kind = "returned"
    /\ ret.value.status = "completed"
    /\ ret.value.final_report_json # NoneVal
    /\ ret.report_id \in DOMAIN db
    /\ db[ret.report_id] = ret.value

-----------------------------------------------------------------------------
(* Properties of the rate limiter *)

\* a check for one token of the limited service during which Redis did not fail
SingleToken(e) == e.service = LimitedService /\ e.count = 1 /\ ~e.failed

\* C17: from a fresh limiter, max_requests consecutive single-token checks are admitted,
\* the next one, begun less than window_seconds after the first, is denied, and a check
\* begun window_seconds or more after the denied one is admitted.
C17_WindowAdmitsThenDeniesThenAdmits ==
    (/\ Len(rl_log) > max_requests
     /\ \A i \in 1..(max_requests + 1) : SingleToken(rl_log[i])
     /\ rl_log[max_requests + 1].start - rl_log[1].start < window_seconds * TicksPerSecond)
    => /\ \A i \in 1..max_requests : rl_log[i].admitted
       /\ ~rl_log[max_requests + 1].admitted
       /\ (/\ Len(rl_log) > max_requests + 1
           /\ SingleToken(rl_log[max_requests + 2])
           /\ rl_log[max_requests + 2].start - rl_log[max_requests + 1].start
                  >= window_seconds * TicksPerSecond)
          => rl_log[max_requests + 2].admitted

\* the tokens the sorted set holds with a score in the window that ends at second sc
TokensInWindow(sc) ==
    ZCard([x \in {y \in DOMAIN zset : sc - window_seconds < y /\ y <= sc} |-> zset[x]])

\* the in-memory counter's count of the limited service, 0 when there is no counter yet
CounterCount ==
    IF LimitedService \in DOMAIN in_memory_counters
    THEN in_memory_counters[LimitedService].count
    ELSE 0

\* C18: whatever the interleaving of the callers' checks, no two checks are between
\* their read and their write at once, and the tokens admitted within one window never
\* exceed max_requests, in Redis or in the in-memory counter.
C18_NeverMoreThanMaxInWindow ==
    /\ \A c, d \in Callers :
          c # d =>
              /\ ~(rl_pc[c] = "redis_write" /\ rl_pc[d] = "redis_write")
              /\ ~(rl_pc[c] \in {"mem_read", "mem_decide"} /\ rl_pc[d] \in {"mem_read", "mem_decide"})
    /\ \A sc \in Seconds : TokensInWindow(sc) <= max_requests
    /\ CounterCount <= max_requests

\* the tokens of the checks in log that Redis admitted with a score above sc
RECURSIVE RedisTokensAbove(_, _)
RedisTokensAbove(log, sc) ==
    IF log = <<>> THEN 0
    ELSE LET e == Head(log)
         IN  (IF e.via = "redis" /\ e.admitted /\ e.start \div TicksPerSecond > sc
              THEN e.count ELSE 0) + RedisTokensAbove(Tail(log), sc)

\* the tokens the sorted set holds with a score above sc
ZTokensAbove(z, sc) == ZCard([x \in {y \in DOMAIN z : y > sc} |-> z[x]])

\* C19: a check for count tokens is admitted exactly when the tokens consumed in the
\* current window plus count are at most max_requests; an admitted check adds exactly
\* count tokens to the window and a denied check adds none.  For Redis the window holds
\* the tokens admitted with a score above current_time - window_seconds, for the
\* in-memory path the tokens counted since last_reset.
C19_AdmittedIffRoomForCount ==
    [][Len(rl_log') = Len(rl_log) + 1 =>
          LET e == rl_log'[Len(rl_log')]
              floor == e.start \div TicksPerSecond - window_seconds
              consumed == RedisTokensAbove(rl_log, floor)
              added == IF e.admitted THEN e.count ELSE 0
          IN  /\ e.via = "redis" =>
                    /\ e.admitted <=> (consumed + e.count <= max_requests)
                    /\ ZTokensAbove(zset', floor) = consumed + added
                    /\ in_memory_counters' = in_memory_counters
              /\ e.via = "memory" =>
                    /\ e.admitted <=> (CounterCount + e.count <= max_requests)
                    /\ CounterCount' = CounterCount + added
                    /\ zset' = zset]_vars

\* C20: a check during which Redis raised, at the read or at the write pipeline, goes on
\* on the in-memory path, returns True or False as the in-memory counter decides, and
\* leaves the sorted set as it was; the error does not reach the caller.
C20_RedisFailureFallsBack ==
    /\ [](\A c \in Callers : rl_failed[c] => rl_pc[c] \in {"mem_lock", "mem_read", "mem_decide"})
    /\ [](\A i \in 1..Len(rl_log) :
             /\ rl_log[i].admitted \in BOOLEAN
             /\ rl_log[i].via \in {"redis", "memory", "none"}
             /\ rl_log[i].failed => rl_log[i].via = "memory")
    /\ [][Len(rl_log') = Len(rl_log) + 1 =>
             LET e == rl_log'[Len(rl_log')]
             IN  e.failed =>
                    /\ e.admitted <=> (CounterCount + e.count <= max_requests)
                    /\ CounterCount' = CounterCount + (IF e.admitted THEN e.count ELSE 0)
                    /\ zset' = zset]_vars

\* C20 witness: Redis held a full window, the write pipeline of one check and the read
\* pipeline of the next both failed, and the in-memory counter admitted the first and
\* denied the second
C20_Witness ==
    /\ Len(rl_log) >= 2
    /\ \E i, j \in 1..Len(rl_log) :
          /\ i < j
          /\ rl_log[i].failed /\ rl_log[i].via = "memory" /\ rl_log[i].admitted
          /\ rl_log[j].failed /\ rl_log[j].via = "memory" /\ ~rl_log[j].admitted
    /\ CounterCount = max_requests

\* C21: for one timed sequence of checks on a service, the in-memory path grants and
\* denies exactly the checks the Redis path grants and denies.
C21_FallbackAnswersLikeRedis ==
    \A i \in 1..Len(rl_log) : rl_log[i].memory = rl_log[i].redis

-----------------------------------------------------------------------------
(* Properties of the response cache *)

\* a step that begins a call (lines 36-47)
CallBegins == cache_last'.n # cache_last.n

\* a step of the call under way
CallGoesOn == cache_last.kind = "pending" /\ cache_last' # cache_last /\ ~CallBegins

\* C22: a call whose key was stored less than CACHE_TTL ago is answered from the cache
\* and does not invoke the external call; a call whose key is not stored, or was stored
\* CACHE_TTL ago or earlier, invokes it, and its result is stored for CACHE_TTL from
\* then on.  (Without a Redis error, and with a value the codecs of the call can write
\* and read.)
C22_WithinTtlOneExternalCall ==
    /\ [][CallBegins =>
             LET e == cache_last'
             IN  /\ (redis /\ ~e.get_failed) => (e.looked = "hit" <=> Found(e.key) = "live")
                 /\ (e.looked = "hit" /\ e.decode = "ok") =>
                        e.kind = "returned" /\ ~e.invoked /\ cache_store' = cache_store
                 /\ e.looked = "miss" => e.kind = "pending" /\ ~e.invoked]_vars
    /\ [][CallGoesOn /\ cache_last.external = "none" =>
             (cache_last'.external # "absent" => cache_last'.invoked)]_vars
    /\ [][CallGoesOn /\ cache_last.external = "returns" =>
             LET e == cache_last'
             IN  (redis /\ ~e.set_failed /\ e.serialize = "ok") =>
                     /\ e.key \in DOMAIN cache_store'
                     /\ cache_store'[e.key].expires = cache_now + CACHE_TTL]_vars
    /\ [][\A k \in DOMAIN cache_store :
             cache_store[k].expires > cache_now' =>
                 /\ k \in DOMAIN cache_store'
                 /\ cache_store'[k].expires >= cache_store[k].expires]_vars

\* C22 witness: a call was answered from an entry stored at an earlier tick, without
\* the external call
C22_Witness ==
    /\ cache_last.kind = "returned"
    /\ cache_last.looked = "hit" /\ cache_last.decode = "ok" /\ ~cache_last.invoked
    /\ cache_store[cache_last.key].expires - CACHE_TTL < cache_now

\* C23: when the deserializer fails on the cached value, whatever it raises, the call
\* goes on as on a miss: the external call is invoked and its result returned, and the
\* call never ends with the deserializer's exception.
C23_DeserializeFailureIsAMiss ==
    /\ [][CallBegins =>
             LET e == cache_last'
             IN  (e.looked = "hit" /\ e.decode # "ok") => e.kind = "pending"]_vars
    /\ [](cache_last.kind = "raised" => cache_last.value.exc \notin {"JSONDecodeError", "KeyError"})
    /\ []((cache_last.kind = "returned" /\ cache_last.looked = "hit" /\ cache_last.decode # "ok"
              /\ cache_last.external = "returns")
             => cache_last.invoked /\ cache_last.value = cache_last.response)

\* C24: on a miss, once the external call has returned, the call returns its result,
\* also when the serializer raises or the write to Redis fails.
C24_CachingFailureKeepsResult ==
    (cache_last.kind \in {"returned", "raised"} /\ cache_last.external = "returns")
        => cache_last.kind = "returned" /\ cache_last.value = cache_last.response

-----------------------------------------------------------------------------
(* Properties of the retried fetches *)

\* the attempts made so far all ended in an exception of the class
AllAttemptsRaised(cls) ==
    \A i \in 1..Len(rt_attempts) :
        rt_attempts[i].kind = "raised" /\ rt_attempts[i].type = cls

\* the attempts but the last all timed out
TimeoutsBeforeLast ==
    \A i \in 1..(Len(rt_attempts) - 1) :
        rt_attempts[i].kind = "raised" /\ rt_attempts[i].type = "OnchainAgentTimeout"

LastAttempt == rt_attempts[Len(rt_attempts)]

\* C25: a fetch whose first k attempts time out (k < MAX_RETRIES) and whose attempt k+1
\* succeeds returns the value of that attempt, after k+1 attempts: a timeout before the
\* limit never ends the call and the call never goes on after a success or beyond the
\* limit; a fetch whose MAX_RETRIES attempts all fail raises the failure of the last
\* attempt, after MAX_RETRIES attempts.
C25_TimeoutsRetriedUntilSuccessOrLimit ==
    /\ Len(rt_attempts) <= MAX_RETRIES
    /\ (rt_pc = "running" /\ Len(rt_attempts) > 0) =>
           /\ LastAttempt.kind = "raised"
           /\ Len(rt_attempts) < MAX_RETRIES
    /\ (rt_pc = "done" /\ AllAttemptsRaised("OnchainAgentTimeout")) =>
           Len(rt_attempts) = MAX_RETRIES
    /\ (rt_pc = "done" /\ TimeoutsBeforeLast /\ LastAttempt.kind = "returned") =>
           /\ rt_result.kind = "returned"
           /\ rt_result.value = LastAttempt.value
    /\ (rt_pc = "done" /\ Len(rt_attempts) = MAX_RETRIES /\ LastAttempt.kind = "raised") =>
           rt_result = LastAttempt

C25_Witness ==
    /\ rt_pc = "done"
    /\ Len(rt_attempts) = 3
    /\ TimeoutsBeforeLast
    /\ rt_result.kind = "returned"

\* C26: an attempt that ends in an HTTP error with a 4xx status other than 429 is the
\* only attempt of its call: the call ends with it, nothing is retried.
C26_ClientErrorNotRetried ==
    \A i \in 1..Len(rt_attempts) :
        (/\ rt_attempts[i].type = "OnchainAgentHTTPError"
         /\ rt_attempts[i].status_code \in 400..499
         /\ rt_attempts[i].status_code # 429)
            => /\ i = 1
               /\ Len(rt_attempts) = 1
               /\ rt_pc = "done"

\* C27: a fetch whose attempts all get an HTTP error status goes on to MAX_RETRIES
\* attempts and then raises OnchainAgentHTTPError with the status code of the last reply.
C27_HttpErrorRetriedThenTyped ==
    /\ (rt_pc = "done" /\ AllAttemptsRaised("OnchainAgentHTTPError")) =>
           /\ Len(rt_attempts) = MAX_RETRIES
           /\ rt_result.kind = "raised"
           /\ rt_result.type = "OnchainAgentHTTPError"
           /\ rt_result.status_code = LastAttempt.status_code
    /\ \A i \in 1..Len(rt_attempts) :
           rt_attempts[i].type = "OnchainAgentHTTPError" =>
               rt_attempts[i].status_code \in ErrorStatuses

C27_Witness ==
    /\ rt_pc = "done"
    /\ Len(rt_attempts) = MAX_RETRIES
    /\ \A i \in 1..Len(rt_attempts) :
           rt_attempts[i].type = "OnchainAgentHTTPError" /\ rt_attempts[i].status_code = 404
    /\ rt_result.type = "OnchainAgentHTTPError"
    /\ rt_result.status_code = 404

\* C28: a fetch whose attempts all fail with an unexpected exception goes on to
\* MAX_RETRIES attempts and then raises OnchainAgentException.
C28_UnexpectedRetriedThenRaised ==
    (rt_pc = "done" /\ AllAttemptsRaised("OnchainAgentException")) =>
        /\ Len(rt_attempts) = MAX_RETRIES
        /\ rt_result.kind = "raised"
        /\ rt_result.type = "OnchainAgentException"

-----------------------------------------------------------------------------
(* Properties of the processing-time tracker *)

\* a finish_timer call returns in this step
FinishReturns == tm_last'.n # tm_last.n

\* C29: a finish_timer for a report with no start timestamp in Redis (the timer was
\* never started, its timestamp expired, or an earlier finish_timer deleted it) returns
\* None and changes nothing; and no finish_timer call raises.
C29_NoTimestampGivesNone ==
    /\ [](tm_last.kind # "raised")
    /\ [][(FinishReturns /\ ~TimerLive(tm_last'.report_id)) =>
             /\ tm_last'.kind = "returned"
             /\ tm_last'.result = "None"
             /\ ~tm_last'.found
             /\ tm_last'.why \in {"never started", "expired", "finished"}
             /\ UNCHANGED <<tm_store, db>>]_vars

C29_Witness ==
    /\ tm_last.kind = "returned"
    /\ tm_last.result = "None"
    /\ ~tm_last.found
    /\ tm_last.why = "finished"

\* C30: a finish_timer that finds the start timestamp of a report whose state row exists
\* appends one record {timestamp, message, threshold} to the row's timing_alerts, the
\* earlier alerts kept, exactly when more than 300 seconds have passed since start_timer;
\* otherwise the report store is left as it is.
C30_AlertIffOverFiveMinutes ==
    [][(FinishReturns /\ tm_last'.found /\ tm_last'.report_id \in DOMAIN db) =>
          LET r == tm_last'.report_id
          IN  IF tm_last'.elapsed > ALERT_THRESHOLD
              THEN /\ r \in DOMAIN db'
                   /\ TimingAlerts(db'[r]) =
                          Append(TimingAlerts(db[r]), WarningMessage(tm_now))
              ELSE db' = db]_vars

-----------------------------------------------------------------------------
(* Properties of process_report and of the sweep beside it *)

\* process_report of report r ends in this step, returning True
ProcessReportReturns(r) == pc[r] = "pr_set_overall" /\ pc'[r] = "bg_set_completed"

\* process_report of report r ends in this step, re-raising from its handler
ProcessReportRaises(r) == pc[r] = "pr_outer_fail" /\ pc'[r] = "bg_fail"

\* the texts of the narrative and the summary failures
CollaboratorErrors == {"nlg error", "summary error"}

\* C32: when process_report ends after narrative generation or summarization failed, the
\* report's status is FAILED and its error_message holds the collaborator's error text.
C32_StageFailureStoresErrorText ==
    [][\A r \in ReportIds :
          ProcessReportRaises(r) =>
              /\ r \in DOMAIN db'
              /\ db'[r].status = "failed"
              /\ db'[r].error_message \in CollaboratorErrors]_vars

\* C36: when process_report ends, the status of the report in REPORT_STORE is not
\* "processing": it is "completed" after a run without a failed agent and "failed" after
\* a run in which an agent failed or the pipeline raised.
C36_StoreStatusLeavesProcessing ==
    [][\A r \in ReportIds :
          /\ ProcessReportReturns(r) =>
                /\ r \in DOMAIN REPORT_STORE'
                /\ REPORT_STORE'[r] = PipelineOverallStatus(agent_results[r])
          /\ ProcessReportRaises(r) =>
                /\ r \in DOMAIN REPORT_STORE'
                /\ REPORT_STORE'[r] = "failed"]_vars

\* the background task of report r is between its start and its end
PipelineRunning(r) == pc[r] \notin {"none", "bg_done"}

\* C38: a report the sweep marked TIMED_OUT while its pipeline was running keeps that
\* status through every later step of the pipeline.
C38_PipelineKeepsTimedOut ==
    [][\A r \in ReportIds :
          (/\ r \in DOMAIN db
           /\ db[r].status = "timed_out"
           /\ PipelineRunning(r)
           /\ pc'[r] # pc[r])
              => db'[r].status = "timed_out"]_vars

-----------------------------------------------------------------------------
(* Properties of the registry during an execution *)

\* C35: while an execution is in flight (from dispatch until execute_agents_concurrently
\* has returned) the registry does not change.
C35_RegistryFrozenInFlight ==
    [][orch_pc = "awaiting" => agents' = agents]_vars

-----------------------------------------------------------------------------
(* Properties of the rate limiter across a Redis failure *)

\* the tokens of the limited service admitted, on either path, by the checks of the log
\* that began at tick t
RECURSIVE AdmittedAt(_, _)
AdmittedAt(log, t) ==
    IF log = <<>> THEN 0
    ELSE LET e == Head(log)
         IN  (IF e.service = LimitedService /\ e.admitted /\ e.start = t THEN e.count ELSE 0)
                 + AdmittedAt(Tail(log), t)

\* C40: the tokens admitted for a service within one window, by Redis and by the
\* in-memory counter together, never exceed max_requests; in particular not for checks
\* begun at the same instant, which lie in every window together.
C40_FailoverKeepsLimit ==
    \A t \in 0..MaxTick : AdmittedAt(rl_log, t) <= max_requests

-----------------------------------------------------------------------------
(* Properties of a cancelled execution *)

\* C33: once the execution has been cancelled, none of its agent tasks is running.
C33_CancelStopsEveryTask ==
    execResult = "cancelled" => \A n \in Names : task[n] # "running"

-----------------------------------------------------------------------------
(* Properties of process_report under several callers and under cancellation *)

\* the calls made for report r, and those of them that went on past try_set_processing
CallsFor(r) == {c \in ProcCalls : calls[c].pc # "idle" /\ calls[c].report_id = r}
Proceeded(r) == {c \in CallsFor(r) : calls[c].pc # "raised ValueError"}

\* C31: of the process_report calls made for one report_id, however they overlap,
\* exactly one goes on to run the pipeline; every other one has raised ValueError and
\* has run no agent.
C31_OneCallProceeds ==
    \A r \in ProcReportIds :
        CallsFor(r) # {} =>
            /\ Cardinality(Proceeded(r)) = 1
            /\ \A c \in CallsFor(r) \ Proceeded(r) :
                   calls[c].pc = "raised ValueError" /\ ~calls[c].agents_run

C31_Witness ==
    \E r \in ProcReportIds :
        /\ Cardinality(CallsFor(r)) = 3
        /\ \E c \in CallsFor(r) : calls[c].pc = "agents"
        /\ Cardinality({c \in CallsFor(r) : calls[c].pc = "raised ValueError"}) = 2

\* C34: handling the cancellation of process_report leaves the report's row as it was
\* last committed before the cancellation: its status and every other field.
C34_CancelKeepsCommittedState ==
    [][\A c \in ProcCalls :
          (calls[c].pc = "cancelling" /\ calls'[c].pc = "cancelled") => db' = db]_vars

-----------------------------------------------------------------------------
(* Properties of the on-chain agent's outcome *)

\* the fetches of the recorded execution that timed out or raised
FailedFetches == {f \in Fetches : oc_sub[f].kind = "raised"}

\* C37: when a sub-fetch of the on-chain agent timed out or raised, the agent is recorded
\* as failed, the key of the failed sub-fetch is absent from the merged data, and the
\* update written to the report has the status AGENTS_FAILED and an errors map that
\* contains onchain_data_agent.
C37_FailedSubFetchFailsAgent ==
    (oc_pc = "recorded" /\ FailedFetches # {}) =>
        /\ OnchainAgentName \in FailedNames(results)
        /\ \A f \in FailedFetches : SubKey(f) \notin DOMAIN aggregated_data
        /\ reportFound =>
              /\ lastUpdate.status = "agents_failed"
              /\ "errors" \in DOMAIN lastUpdate
              /\ OnchainAgentName \in DOMAIN lastUpdate.errors

-----------------------------------------------------------------------------
(* Properties of the fetches' use of the rate limiter *)

\* the calls of one kind among those an attempt made
DidOf(attempt, op) == {j \in 1..Len(attempt.did) : attempt.did[j].op = op}

\* the tokens the limiter granted to an attempt
GrantsOf(attempt) == {j \in DidOf(attempt, "check_rate_limit") : attempt.did[j].granted}

\* the requests the call sent and the tokens it was granted, over all its attempts
RequestsSent ==
    Cardinality(UNION {{<<i, j>> : j \in DidOf(rt_attempts[i], "client.get")} :
                          i \in 1..Len(rt_attempts)})
TokensGranted ==
    Cardinality(UNION {{<<i, j>> : j \in GrantsOf(rt_attempts[i])} :
                          i \in 1..Len(rt_attempts)})

\* C39: every attempt of fetch_onchain_metrics and fetch_tokenomics, retries included,
\* asks the rate limiter for exactly one token of "onchain_agent"; an HTTP request is
\* sent only after the limiter granted the token of that attempt; so the requests sent
\* by a call never exceed the tokens granted to it.
C39_RequestOnlyAfterGrant ==
    /\ \A i \in 1..Len(rt_attempts) :
          LET a == rt_attempts[i]
          IN  /\ Cardinality(DidOf(a, "check_rate_limit")) = 1
              /\ \A j \in DidOf(a, "check_rate_limit") :
                    a.did[j].count = 1 /\ a.did[j].service = "onchain_agent"
              /\ Cardinality(DidOf(a, "client.get")) <= 1
              /\ \A j \in DidOf(a, "client.get") : \E k \in GrantsOf(a) : k < j
    /\ RequestsSent <= TokensGranted

\* a call whose first attempt sent its request and timed out and whose retry was refused
\* by the limiter: two tokens asked, one granted, one request sent
C39_Witness ==
    /\ rt_pc = "done"
    /\ Len(rt_attempts) = 2
    /\ rt_attempts[1].type = "OnchainAgentTimeout"
    /\ rt_attempts[2].type = "OnchainAgentRateLimitExceeded"
    /\ RequestsSent = 1
    /\ TokensGranted = 1

=============================================================================
